---- MODULE Spec2Model ----
(***************************************************************************)
(* Verification model of the SFS-Lab numeric core:                         *)
(*   src/services/physics.ts        getDerivatives, simulateLaunch,        *)
(*                                  runOptimization                        *)
(*   src/components/MultiStageTool.tsx   computedStages                    *)
(*                                                                         *)
(* Numbers.  A JavaScript number is modelled as an extended rational       *)
(* <<n, d>>: d > 0 is the finite value n/d in lowest terms, <<1,0>> is     *)
(* +Infinity, <<-1,0>> is -Infinity and <<0,0>> is NaN.  The closed-form   *)
(* figures (masses, burn time, TWR) are computed exactly.  Inside the RK4  *)
(* integrator and in Math.log / Math.exp every result is rounded to a grid *)
(* of 1/1000 (operator Fx), which stands for the rounding of a double.     *)
(***************************************************************************)
EXTENDS Integers, Sequences, FiniteSets, TLC

----------------------------------------------------------------------------
(* Extended rational arithmetic (IEEE-754 special values included).        *)

Abs(x) == IF x < 0 THEN -x ELSE x

Sign(x) == IF x > 0 THEN 1 ELSE IF x < 0 THEN -1 ELSE 0

\* The arithmetic below is written as functions applied to values, so that an
\* operand is evaluated once however often the definition reads it.
GCD[a \in Nat, b \in Nat] == IF b = 0 THEN a ELSE GCD[b, a % b]

\* Round-to-nearest integer division, b > 0.
RoundDiv(a, b) == (2 * a + b) \div (2 * b)

\* The carrier of the number model: pairs <<numerator, denominator>>.
Num == Int \X Int

NaN == <<0, 0>>

PosInf == <<1, 0>>

NegInf == <<-1, 0>>

Zero == <<0, 1>>

One == <<1, 1>>

NormOf[n \in Int, d \in Int] ==
  IF d = 0 THEN <<Sign(n), 0>>
  ELSE LET s == IF d < 0 THEN -1 ELSE 1
           g == GCD[Abs(n), Abs(d)]
       IN  <<(s * n) \div g, (s * d) \div g>>

Norm(n, d) == NormOf[n, d]

Whole(k) == <<k, 1>>

\* k thousandths: the literal k/1000.
Milli(k) == Norm(k, 1000)

IsNaN(a) == a[2] = 0 /\ a[1] = 0

IsInf(a) == a[2] = 0 /\ a[1] # 0

IsFinite(a) == a[2] # 0

RSign(a) == Sign(a[1])

NegOf[a \in Num] == <<-a[1], a[2]>>

RNeg(a) == NegOf[a]

AddOf[a \in Num, b \in Num] ==
  IF IsNaN(a) \/ IsNaN(b) THEN NaN
  ELSE IF IsInf(a) /\ IsInf(b) THEN (IF a[1] = b[1] THEN a ELSE NaN)
  ELSE IF IsInf(a) THEN a
  ELSE IF IsInf(b) THEN b
  ELSE LET g == GCD[a[2], b[2]]
       IN  Norm(a[1] * (b[2] \div g) + b[1] * (a[2] \div g), (a[2] \div g) * b[2])

RAdd(a, b) == AddOf[a, b]

RSub(a, b) == RAdd(a, RNeg(b))

MulOf[a \in Num, b \in Num] ==
  IF IsNaN(a) \/ IsNaN(b) THEN NaN
  ELSE IF IsInf(a) \/ IsInf(b)
       THEN (IF RSign(a) * RSign(b) = 0 THEN NaN ELSE <<RSign(a) * RSign(b), 0>>)
  ELSE LET g1 == GCD[Abs(a[1]), b[2]]
           g2 == GCD[Abs(b[1]), a[2]]
       IN  Norm((a[1] \div g1) * (b[1] \div g2), (a[2] \div g2) * (b[2] \div g1))

RMul(a, b) == MulOf[a, b]

\* IEEE division: x/0 is +-Infinity, 0/0 is NaN, x/Infinity is 0.
DivOf[a \in Num, b \in Num] ==
  IF IsNaN(a) \/ IsNaN(b) THEN NaN
  ELSE IF IsInf(b) THEN (IF IsInf(a) THEN NaN ELSE Zero)
  ELSE IF b[1] = 0 THEN <<RSign(a), 0>>
  ELSE IF IsInf(a) THEN <<RSign(a) * RSign(b), 0>>
  ELSE RMul(a, Norm(b[2], b[1]))

RDiv(a, b) == DivOf[a, b]

\* a < b as JavaScript compares numbers: false when either side is NaN.
LtOf[a \in Num, b \in Num] ==
  IF IsNaN(a) \/ IsNaN(b) THEN FALSE
  ELSE IF IsInf(a) \/ IsInf(b)
       THEN (IF IsInf(a) /\ IsInf(b) THEN a[1] < b[1]
             ELSE IF IsInf(a) THEN a[1] < 0
             ELSE b[1] > 0)
  ELSE LET g == GCD[a[2], b[2]]
       IN  a[1] * (b[2] \div g) < b[1] * (a[2] \div g)

RLt(a, b) == LtOf[a, b]

EqOf[a \in Num, b \in Num] == ~IsNaN(a) /\ ~IsNaN(b) /\ a = b

REq(a, b) == EqOf[a, b]

LeOf[a \in Num, b \in Num] == RLt(a, b) \/ REq(a, b)

RLe(a, b) == LeOf[a, b]

RGt(a, b) == RLt(b, a)

RGe(a, b) == RLe(b, a)

\* Math.max / Math.min: NaN if either argument is NaN.
MaxOf[a \in Num, b \in Num] ==
  IF IsNaN(a) \/ IsNaN(b) THEN NaN ELSE IF RLt(a, b) THEN b ELSE a

RMax(a, b) == MaxOf[a, b]

MinOf[a \in Num, b \in Num] ==
  IF IsNaN(a) \/ IsNaN(b) THEN NaN ELSE IF RLt(b, a) THEN b ELSE a

RMin(a, b) == MinOf[a, b]

AbsOf[a \in Num] == <<Abs(a[1]), a[2]>>

RAbs(a) == AbsOf[a]

\* Rounding of a finite value to the 1/1000 grid; special values are kept.
FxOf[a \in Num] ==
  IF a[2] = 0 THEN a
  ELSE LET n == Abs(a[1])
           q == (n \div a[2]) * 1000 + RoundDiv((n % a[2]) * 1000, a[2])
       IN  Norm(Sign(a[1]) * q, 1000)

Fx(a) == FxOf[a]

FAdd(a, b) == Fx(RAdd(a, b))

FSub(a, b) == Fx(RSub(a, b))

FMul(a, b) == Fx(RMul(a, b))

FDiv(a, b) == Fx(RDiv(a, b))

\* Math.log on the grid: ln(x) = 2 atanh((x-1)/(x+1)), the odd power series
\* summed in thousandths until its terms vanish.
LogSeries[p \in Int, y2 \in Int, k \in Int, acc \in Int] ==
  IF p = 0 \/ k > 60 THEN acc
  ELSE LogSeries[RoundDiv(p * y2, 1000), y2, k + 2, acc + RoundDiv(2 * p, k)]

LogOf[x \in Num] ==
  IF IsNaN(x) \/ RSign(x) < 0 THEN NaN
  ELSE IF x[1] = 0 THEN NegInf
  ELSE IF IsInf(x) THEN PosInf
  ELSE LET y == RoundDiv((x[1] - x[2]) * 1000, x[1] + x[2])
       IN  Milli(LogSeries[y, RoundDiv(y * y, 1000), 1, 0])

MathLog(x) == LogOf[x]

\* Math.exp on the grid: the Taylor series of e^|x| in thousandths, inverted
\* for negative arguments.
ExpSeries[x \in Int, term \in Int, k \in Int, acc \in Int] ==
  IF term = 0 \/ k > 60 THEN acc
  ELSE ExpSeries[x, RoundDiv(term * x, 1000 * k), k + 1, acc + term]

ExpOf[x \in Num] ==
  IF IsNaN(x) THEN NaN
  ELSE IF IsInf(x) THEN (IF x[1] > 0 THEN PosInf ELSE Zero)
  ELSE LET m == Fx(x)
           a == (Abs(m[1]) * 1000) \div m[2]
           e == ExpSeries[a, 1000, 1, 0]
       IN  IF m[1] >= 0 THEN Milli(e) ELSE Fx(RDiv(One, Milli(e)))

MathExp(x) == ExpOf[x]

\* Math.pow(x, 2)
Pow2Of[x \in Num] == FMul(x, x)

MathPow2(x) == Pow2Of[x]

\* Number(x.toFixed(2))
ToFixed2Of[x \in Num] ==
  IF x[2] = 0 THEN x
  ELSE LET m == Fx(x) IN Norm(RoundDiv((m[1] * 1000) \div m[2], 10), 100)

ToFixed2(x) == ToFixed2Of[x]

----------------------------------------------------------------------------
(* src/unnamed/part_001 (constants.ts)                                     *)

\* export const GRAVITY_EARTH = 9.80665
GRAVITY_EARTH == Norm(980665, 100000)

----------------------------------------------------------------------------
(* src/services/physics.ts                                                 *)

VARIABLES
  pc,               \* "call" | "loop" | "done": position inside simulateLaunch
  tankTotalMassT,   \* argument 1 of simulateLaunch (tonnes)
  params,           \* RocketParams
  planet,           \* Planet
  settings,         \* SimulationSettings
  logInterval,      \* argument 5 of simulateLaunch
  payloadOverride,  \* argument 6 passed by handleShowLog / calculateMatrix
  state,            \* StateVector <<t, r, v, m>>
  maxV,
  telemetry,
  logTimer,
  result,           \* the SimulationResult returned, "none" before the return
  peakAlt,          \* history: greatest altitude of any integrator state so far
  stepped           \* history: TRUE once this call has taken an RK4 step

launchVars == <<pc, tankTotalMassT, params, planet, settings, logInterval,
                payloadOverride, state, maxV, telemetry, logTimer, result,
                peakAlt, stepped>>

\* Mutant of the cutoff: the engine also stops when the mass is down to the
\* dry mass, initialTotalMass - totalFuelMass.
IsBurningWithFuel(st, burnTime, totalFuelMass, initialTotalMass) ==
  RLt(st[1], burnTime) /\ RGt(st[4], Fx(RSub(initialTotalMass, totalFuelMass)))

\* physics.ts 33: isBurning = t < burnTime
IsBurning(st, burnTime, totalFuelMass, initialTotalMass) == RLt(st[1], burnTime)

\* physics.ts 24-29: gravity.
Gravity(st, pl, se) ==
  IF se.gravityModel = "constant"
  THEN Fx(pl.gravitySurface)
  ELSE FMul(Fx(pl.gravitySurface), MathPow2(FDiv(Fx(pl.radius), st[2])))

\* physics.ts 36
ThrustForceN(pa) ==
  RMul(RMul(RMul(Whole(pa.engineCount), pa.engine.thrust), Whole(1000)), GRAVITY_EARTH)

\* physics.ts 39, 42: mass flow rate.
MassFlow(pa, isBurning) ==
  IF isBurning THEN RDiv(ThrustForceN(pa), RMul(pa.engine.isp, GRAVITY_EARTH)) ELSE Zero

\* physics.ts 45: acceleration from thrust.
AccelThrust(st, pa, isBurning) ==
  IF isBurning THEN FDiv(Fx(ThrustForceN(pa)), st[4]) ELSE Zero

\* physics.ts 49: the condition of the drag branch.
InAtmosphere(st, pl, se) ==
  se.enableDrag /\ RLt(st[2], RAdd(pl.radius, pl.atmosphereHeight))

\* physics.ts 48-62: acceleration from drag.
AccelDrag(st, pl, se, initialTotalMass) ==
  LET r == st[2]
      v == st[3]
      m == st[4]
      h == FSub(r, Fx(pl.radius))
      rho0 == Milli(1225)
      scaleHeight == RDiv(pl.atmosphereHeight, Whole(5))
      rho == FMul(rho0, MathExp(FDiv(RNeg(h), Fx(scaleHeight))))
      dragFactor == FMul(Milli(5), Fx(initialTotalMass))
      dragForce == FMul(FMul(FMul(FMul(Milli(500), rho), v), RAbs(v)), dragFactor)
  IN  IF InAtmosphere(st, pl, se)
      THEN FMul(RNeg(FDiv(dragForce, m)), IF RGt(v, Zero) THEN One ELSE Whole(-1))
      ELSE Zero

\* The terms getDerivatives adds up (physics.ts 20-66).
DerivativeTerms(st, pl, pa, se, totalFuelMass, initialTotalMass, burnTime) ==
  [g |-> Gravity(st, pl, se),
   mDot |-> MassFlow(pa, IsBurning(st, burnTime, totalFuelMass, initialTotalMass)),
   accelThrust |-> AccelThrust(st, pa, IsBurning(st, burnTime, totalFuelMass, initialTotalMass)),
   accelDrag |-> AccelDrag(st, pl, se, initialTotalMass)]

\* physics.ts 66-73: the vector returned from the terms.
DerivativesOf(st, terms) ==
  <<One, st[3], FAdd(FSub(terms.accelThrust, terms.g), terms.accelDrag), Fx(RNeg(terms.mDot))>>

\* getDerivatives (physics.ts 11-74): <<dt/dt, dr/dt, dv/dt, dm/dt>>.
getDerivatives(st, pl, pa, se, totalFuelMass, initialTotalMass, burnTime) ==
  CHOOSE k \in {DerivativesOf(st, terms) :
                  terms \in {DerivativeTerms(st, pl, pa, se, totalFuelMass,
                                             initialTotalMass, burnTime)}} : TRUE

\* Mutant of the dry mass: the payload is left out.
DryMassWithoutPayload(enginesMassT, payloadMassT, tankDryMassT) ==
  RAdd(enginesMassT, tankDryMassT)

\* physics.ts 93: dryMassT = enginesMassT + payloadMassT + tankDryMassT
DryMass(enginesMassT, payloadMassT, tankDryMassT) ==
  RAdd(RAdd(enginesMassT, payloadMassT), tankDryMassT)

\* The mass and burn figures simulateLaunch derives before the loop
\* (physics.ts 86-111).  The payload is params.payloadMass: simulateLaunch
\* declares five parameters, a sixth argument is not read.
LaunchFigures(tank, pa, pl) ==
  LET fuelMassT == RMul(tank, RSub(One, pa.tankDryWetRatio))
      tankDryMassT == RMul(tank, pa.tankDryWetRatio)
      enginesMassT == RMul(Whole(pa.engineCount), pa.engine.mass)
      payloadMassT == pa.payloadMass
      dryMassT == DryMass(enginesMassT, payloadMassT, tankDryMassT)
      totalMassT == RAdd(dryMassT, fuelMassT)
      totalMassKg == RMul(totalMassT, Whole(1000))
      dryMassKg == RMul(dryMassT, Whole(1000))
      fuelMassKg == RMul(fuelMassT, Whole(1000))
      ve == RMul(pa.engine.isp, GRAVITY_EARTH)
      thrustN ==
        RMul(RMul(RMul(Whole(pa.engineCount), pa.engine.thrust), Whole(1000)), GRAVITY_EARTH)
      mDot == RDiv(thrustN, ve)
      burnTime == IF RGt(mDot, Zero) THEN RDiv(fuelMassKg, mDot) ELSE Zero
      deltaV == FMul(Fx(ve), MathLog(RDiv(totalMassT, dryMassT)))
      weightN == RMul(totalMassKg, pl.gravitySurface)
      twrStart == IF RGt(weightN, Zero) THEN RDiv(thrustN, weightN) ELSE Zero
  IN  [fuelMassT |-> fuelMassT, dryMassT |-> dryMassT, totalMassT |-> totalMassT,
       totalMassKg |-> totalMassKg, dryMassKg |-> dryMassKg, fuelMassKg |-> fuelMassKg,
       thrustN |-> thrustN, mDot |-> mDot, burnTime |-> burnTime, deltaV |-> deltaV,
       twrStart |-> twrStart]

\* Mutant of the gate: the threshold 1 in place of 1.0001.
GateClosesAtOne(twrStart) == RLt(twrStart, One)

\* The liftoff gate (physics.ts 114): if (twrStart < 1.0001) return ...
GateCloses(twrStart) == RLt(twrStart, Norm(10001, 10000))

\* Mutant of the early return: the delta-v is not reported for a rocket that
\* stays on the pad.
GateResultNoDeltaV(tank, f) ==
  [tankMass |-> tank, totalMassStart |-> f.totalMassT, fuelMass |-> f.fuelMassT,
   dryMass |-> f.dryMassT, burnTime |-> f.burnTime, maxHeight |-> Zero,
   maxVelocity |-> Zero, twrStart |-> f.twrStart, deltaV |-> Zero,
   telemetry |-> "undefined"]

\* physics.ts 115-125: the result of the early return (no telemetry key).
GateResult(tank, f) ==
  [tankMass |-> tank, totalMassStart |-> f.totalMassT, fuelMass |-> f.fuelMassT,
   dryMass |-> f.dryMassT, burnTime |-> f.burnTime, maxHeight |-> Zero,
   maxVelocity |-> Zero, twrStart |-> f.twrStart, deltaV |-> f.deltaV,
   telemetry |-> "undefined"]

\* physics.ts 130-142: the locals of the integration loop at its entry.
LoopEntry(pl, f) ==
  [state |-> <<Zero, Fx(pl.radius), Zero, Fx(f.totalMassKg)>>,
   maxV |-> Zero, telemetry |-> <<>>, logTimer |-> Zero]

\* Mutant of the breaks: the break on a negative velocity is left out.
LoopContinuesWhileFalling(L, pl, se) ==
  /\ RLt(L.state[1], se.maxTime)
  /\ ~(RGt(L.state[1], One) /\ RLe(L.state[2], pl.radius))

\* The loop condition and the two breaks (physics.ts 144-153): TRUE iff the
\* body below the breaks runs from these locals.
LoopContinues(L, pl, se) ==
  /\ RLt(L.state[1], se.maxTime)
  /\ ~(RGt(L.state[1], One) /\ RLe(L.state[2], pl.radius))
  /\ ~RLt(L.state[3], Zero)

\* physics.ts 183-204: the record pushed, from the forces of the snapshot.
TelemetryRecord(st, pl, f, g, currentThrustN, currentDragN, weight, currentFuelKg) ==
  [time |-> ToFixed2(st[1]),
   height |-> FSub(st[2], Fx(pl.radius)),
   velocity |-> st[3],
   gravity |-> g,
   fuelPercent |-> RMax(Zero, IF RGt(f.fuelMassKg, Zero)
                              THEN FMul(FDiv(currentFuelKg, Fx(f.fuelMassKg)), Whole(100))
                              ELSE Zero),
   fuelConsumed |-> FDiv(FSub(Fx(f.fuelMassKg), currentFuelKg), Whole(1000)),
   mass |-> FDiv(st[4], Whole(1000)),
   acceleration |-> FDiv(FSub(FSub(currentThrustN, weight), currentDragN), st[4]),
   thrust |-> FDiv(currentThrustN, Whole(1000)),
   drag |-> FDiv(currentDragN, Whole(1000)),
   twr |-> IF RGt(weight, Zero) THEN FDiv(currentThrustN, weight) ELSE Zero]

\* physics.ts 164-166: gravity at the snapshot.
SnapshotGravity(st, pl, se) ==
  IF se.gravityModel = "constant"
  THEN Fx(pl.gravitySurface)
  ELSE FMul(Fx(pl.gravitySurface), MathPow2(FDiv(Fx(pl.radius), st[2])))

\* physics.ts 173-181: drag force at the snapshot.
SnapshotDrag(st, pl, se, f) ==
  IF se.enableDrag /\ RLt(st[2], RAdd(pl.radius, pl.atmosphereHeight))
  THEN FMul(FMul(FMul(FMul(Milli(500),
            FMul(Milli(1225),
                 MathExp(FDiv(RNeg(FSub(st[2], Fx(pl.radius))),
                              Fx(RDiv(pl.atmosphereHeight, Whole(5))))))),
            st[3]), RAbs(st[3])), FMul(Milli(5), Fx(f.totalMassKg)))
  ELSE Zero

TelemetryWith(st, pl, f, g, currentThrustN, currentDragN) ==
  TelemetryRecord(st, pl, f, g, currentThrustN, currentDragN, FMul(st[4], g),
                  RMax(Zero, FSub(st[4], Fx(f.dryMassKg))))

\* physics.ts 160-204: the telemetry record of one snapshot.
TelemetryPoint(st, pl, se, f) ==
  TelemetryWith(st, pl, f, SnapshotGravity(st, pl, se),
                IF RLt(st[1], f.burnTime) THEN Fx(f.thrustN) ELSE Zero,
                SnapshotDrag(st, pl, se, f))

\* state + k * dt * c, component by component (physics.ts 212-233).
SubState(st, k, dt, c) ==
  [i \in 1..4 |-> FAdd(st[i], FMul(FMul(k[i], dt), c))]

Derive(st, pl, pa, se, f) ==
  getDerivatives(st, pl, pa, se, f.fuelMassKg, f.totalMassKg, f.burnTime)

\* Mutant of the update: the mass is not clamped at the dry mass.
RK4UpdateUnclamped(st, dt, k1, k2, k3, k4, dryMassKg) ==
  LET Comb(i) == FAdd(FAdd(FAdd(k1[i], FMul(Whole(2), k2[i])), FMul(Whole(2), k3[i])), k4[i])
      Upd(i) == FAdd(st[i], FMul(FDiv(dt, Whole(6)), Comb(i)))
  IN  <<FAdd(st[1], dt), Upd(2), Upd(3), Upd(4)>>

\* physics.ts 237-242: the updated state from the four slopes.
RK4Update(st, dt, k1, k2, k3, k4, dryMassKg) ==
  LET Comb(i) == FAdd(FAdd(FAdd(k1[i], FMul(Whole(2), k2[i])), FMul(Whole(2), k3[i])), k4[i])
      Upd(i) == FAdd(st[i], FMul(FDiv(dt, Whole(6)), Comb(i)))
  IN  <<FAdd(st[1], dt), Upd(2), Upd(3), RMax(Fx(dryMassKg), Upd(4))>>

\* physics.ts 230-235: k4 from k3, then the update.  (Each slope is bound as
\* a value, the one element of a singleton, before the next one reads it.)
RK4From3(st, pl, pa, se, f, dt, k1, k2, k3) ==
  CHOOSE next \in {RK4Update(st, dt, k1, k2, k3, k4, f.dryMassKg) :
                     k4 \in {Derive(SubState(st, k3, dt, One), pl, pa, se, f)}} : TRUE

\* physics.ts 221-228: k3 from k2.
RK4From2(st, pl, pa, se, f, dt, k1, k2) ==
  CHOOSE next \in {RK4From3(st, pl, pa, se, f, dt, k1, k2, k3) :
                     k3 \in {Derive(SubState(st, k2, dt, Milli(500)), pl, pa, se, f)}} : TRUE

\* physics.ts 212-219: k2 from k1.
RK4From1(st, pl, pa, se, f, dt, k1) ==
  CHOOSE next \in {RK4From2(st, pl, pa, se, f, dt, k1, k2) :
                     k2 \in {Derive(SubState(st, k1, dt, Milli(500)), pl, pa, se, f)}} : TRUE

\* physics.ts 209-242: one classical RK4 step from st.
RK4Step(st, pl, pa, se, f) ==
  CHOOSE next \in {RK4From1(st, pl, pa, se, f, dt, k1) :
                     dt \in {Fx(se.timeStep)}, k1 \in {Derive(st, pl, pa, se, f)}} : TRUE

\* Mutant of the logging: a sample is taken in every iteration, the log timer
\* is not consulted.
LoopBodyLogEveryStep(L, pl, pa, se, li, f) ==
  LET recordTelemetry == RGt(li, Zero)
  IN  [state |-> RK4Step(L.state, pl, pa, se, f),
       maxV |-> RMax(L.maxV, L.state[3]),
       telemetry |-> IF recordTelemetry
                     THEN Append(L.telemetry, TelemetryPoint(L.state, pl, se, f))
                     ELSE L.telemetry,
       logTimer |-> IF recordTelemetry THEN FAdd(L.logTimer, li) ELSE L.logTimer]

\* physics.ts 155-242: the loop body after the breaks (running maximum of the
\* velocity, the optional telemetry sample, the RK4 step).
LoopBody(L, pl, pa, se, li, f) ==
  LET recordTelemetry == RGt(li, Zero)
      logs == recordTelemetry /\ RGe(L.state[1], L.logTimer)
  IN  [state |-> RK4Step(L.state, pl, pa, se, f),
       maxV |-> RMax(L.maxV, L.state[3]),
       telemetry |-> IF logs THEN Append(L.telemetry, TelemetryPoint(L.state, pl, se, f))
                     ELSE L.telemetry,
       logTimer |-> IF logs THEN FAdd(L.logTimer, li) ELSE L.logTimer]

\* Mutant of the result: the height is reported without the clamp at 0.
LoopResultUnclamped(tank, L, pl, li, f) ==
  [tankMass |-> tank, totalMassStart |-> f.totalMassT, fuelMass |-> f.fuelMassT,
   dryMass |-> f.dryMassT, burnTime |-> f.burnTime,
   maxHeight |-> FSub(L.state[2], Fx(pl.radius)),
   maxVelocity |-> L.maxV, twrStart |-> f.twrStart, deltaV |-> f.deltaV,
   telemetry |-> IF RGt(li, Zero) THEN L.telemetry ELSE "undefined"]

\* physics.ts 245-256: the result returned after the loop.
LoopResult(tank, L, pl, li, f) ==
  [tankMass |-> tank, totalMassStart |-> f.totalMassT, fuelMass |-> f.fuelMassT,
   dryMass |-> f.dryMassT, burnTime |-> f.burnTime,
   maxHeight |-> RMax(Zero, FSub(L.state[2], Fx(pl.radius))),
   maxVelocity |-> L.maxV, twrStart |-> f.twrStart, deltaV |-> f.deltaV,
   telemetry |-> IF RGt(li, Zero) THEN L.telemetry ELSE "undefined"]

\* The whole loop as a function of its entry locals, for the callers that
\* run simulateLaunch to completion (runOptimization).
RECURSIVE RunLoop(_, _, _, _, _, _)
RunLoop(L, pl, pa, se, li, f) ==
  IF LoopContinues(L, pl, se) THEN RunLoop(LoopBody(L, pl, pa, se, li, f), pl, pa, se, li, f)
  ELSE L

\* simulateLaunch (physics.ts 79-257) as a function of its arguments.
simulateLaunchWith(tank, pa, pl, se, li, f) ==
  IF GateCloses(f.twrStart) THEN GateResult(tank, f)
  ELSE LoopResult(tank, RunLoop(LoopEntry(pl, f), pl, pa, se, li, f), pl, li, f)

simulateLaunch(tank, pa, pl, se, li) ==
  simulateLaunchWith(tank, pa, pl, se, li, LaunchFigures(tank, pa, pl))

VARIABLES
  spc,            \* "call" | "loop" | "done": position inside runOptimization
  optMode,        \* the mode the caller (handleCalculate) holds: "payload" | "fuel"
  sweepSettings,  \* the local copy { ...settings, timeStep: sweepDt }
  m,              \* the loop variable of the sweep
  results,        \* SimulationResult[] being built / returned
  simCalls        \* history: the <<tank, payload, timeStep>> of every simulateLaunch call

sweepVars == <<spc, optMode, sweepSettings, m, results, simCalls>>

\* Mutant of the validation: a zero step is let through.
SweepRejectedNegativeOnly(pa) ==
  \/ RLt(pa.stepTotalTankMass, Zero)
  \/ RGt(pa.minTotalTankMass, pa.maxTotalTankMass)

\* physics.ts 269-270: the two validations that return [].
SweepRejected(pa) ==
  \/ RLe(pa.stepTotalTankMass, Zero)
  \/ RGt(pa.minTotalTankMass, pa.maxTotalTankMass)

\* physics.ts 275-276
SweepSettings(se) == [se EXCEPT !.timeStep = RMax(se.timeStep, Norm(1, 10))]

\* Mutant of the loop condition: the upper end excluded.
SweepContinuesExclusive(mm, pa) == RLt(mm, pa.maxTotalTankMass)

\* physics.ts 278: the loop condition m <= params.maxTotalTankMass.
SweepContinues(mm, pa) == RLe(mm, pa.maxTotalTankMass)

\* physics.ts 280: the simulation pushed for the loop value mm.
SweepPoint(mm, pa, pl, sse) == simulateLaunch(mm, pa, pl, sse, Zero)

----------------------------------------------------------------------------
(* src/components/MultiStageTool.tsx, computedStages (158-268)             *)

VARIABLES
  mpc,               \* "call" | "loop" | "done": position inside computedStages
  stages,            \* RocketStage[] (index 1 = bottom, first to burn)
  payloadMass,       \* payload of the multi-stage tool (tonnes)
  simStages,         \* the per-call clones with remainingFuel
  idx,               \* loop index i (1-based here)
  computed,          \* ComputedStage[] pushed so far ("results" in the source)
  cumulativeDeltaV

stageVars == <<mpc, stages, payloadMass, simStages, idx, computed, cumulativeDeltaV>>

\* Several invocations side by side: every invocation of simulateLaunch owns
\* the locals of physics.ts 130-142, every evaluation of computedStages the
\* locals of MultiStageTool.tsx 159-163.  Neither module declares a variable
\* outside its functions.
VARIABLES
  launches,          \* invocation -> [pc, tank, logInterval, L, result]
  evals              \* evaluation -> [mpc, C, idx]

callVars == <<launches, evals>>

\* PayloadFuelOptimizer, calculateMatrix (lines 133-162 of the component).
VARIABLES
  xpc,             \* "call" | "outer" | "inner" | "done": position inside calculateMatrix
  matrixSettings,  \* the local copy { ...settings, timeStep: ... } ("sweepSettings")
  payloadP,        \* the loop variable p of the outer loop
  fuelF,           \* the loop variable f of the inner loop
  data,            \* DataPoint[] being built, handed to setData at the end
  matrixCalls      \* history: the arguments of every simulateLaunch call

matrixVars == <<xpc, matrixSettings, payloadP, fuelF, data, matrixCalls>>

\* VideoAnalyzer, the batch analysis (producer / consumer), lines 80-118 and
\* 505-680 of the component.  A run is one invocation of startAnalysisLoop;
\* an invocation that has not returned yet stays alive when the next one
\* starts, so every run has its own position.
VARIABLES
  analysisStatus,     \* "idle" | "running" | "paused" (React state, line 80)
  isPausedRef,        \* isPausedRef.current
  shouldStopRef,      \* shouldStopRef.current
  jobQueueRef,        \* jobQueueRef.current: sequence of [id, status, base64Data]
  activeRequestsRef,  \* activeRequestsRef.current
  inFlight,           \* job ids of the callAI promises that have not settled
  producers,          \* run -> [pc, currentTime, stopped] of its startAnalysisLoop
  runs,               \* number of invocations of startAnalysisLoop so far
  frames,             \* number of capture times below maxDuration
  provider,           \* how callAI settles: "working" | "failing" | "flaky"
  userOps             \* pause and retry clicks counted against MaxUserOps

analyzerVars ==
  <<analysisStatus, isPausedRef, shouldStopRef, jobQueueRef, activeRequestsRef,
    inFlight, producers, runs, frames, provider, userOps>>

vars == <<launchVars, sweepVars, stageVars, callVars, matrixVars, analyzerVars>>

\* calculateMatrix, line 137
MatrixSettings(se) == [se EXCEPT !.timeStep = RMax(se.timeStep, Norm(1, 5))]

\* calculateMatrix, lines 139-140: Math.max(0.1, step)
MatrixStep(step) == RMax(Norm(1, 10), step)

\* calculateMatrix, lines 144-147: { ...params, payloadMass: p }
IterationParams(pa, pp) == [pa EXCEPT !.payloadMass = pp]

\* calculateMatrix, lines 150-156: the DataPoint of the grid point (pp, ff).
MatrixPointOf(pp, ff, res) ==
  [payload |-> ToFixed2(pp), fuel |-> ToFixed2(ff),
   height |-> RDiv(res.maxHeight, Whole(1000)), deltaV |-> res.deltaV]

\* MultiStageTool.tsx 163
CloneStages(ss) ==
  [k \in 1..Len(ss) |->
     [id |-> ss[k].id, dryMass |-> ss[k].dryMass, fuelMass |-> ss[k].fuelMass,
      engineThrust |-> ss[k].engineThrust, engineIsp |-> ss[k].engineIsp,
      isEnabled |-> ss[k].isEnabled, stageType |-> ss[k].stageType,
      remainingFuel |-> ss[k].fuelMass]]

\* Mutant of the mass above: disabled stages are carried as well.
RECURSIVE MassAboveAll(_, _, _)
MassAboveAll(sim, j, acc) ==
  IF j > Len(sim) THEN acc
  ELSE MassAboveAll(sim, j + 1, RAdd(acc, RAdd(sim[j].dryMass, sim[j].remainingFuel)))

\* MultiStageTool.tsx 171-176: payload plus dry + remaining fuel of every
\* enabled stage from index j upwards.
RECURSIVE MassAbove(_, _, _)
MassAbove(sim, j, acc) ==
  IF j > Len(sim) THEN acc
  ELSE MassAbove(sim, j + 1,
                 IF sim[j].isEnabled
                 THEN RAdd(acc, RAdd(sim[j].dryMass, sim[j].remainingFuel))
                 ELSE acc)

\* MultiStageTool.tsx 179
IsParallel(sim, i) == sim[i].stageType = "parallel" /\ i + 1 <= Len(sim)

\* Mutant of the phase time: the pair burns until the later of the two is empty.
PhaseTimeLongest(timeToEmptyCurrent, timeToEmptyNext) ==
  RMax(timeToEmptyCurrent, timeToEmptyNext)

\* MultiStageTool.tsx 207: Math.min(timeToEmptyCurrent, timeToEmptyNext)
PhaseTime(timeToEmptyCurrent, timeToEmptyNext) ==
  RMin(timeToEmptyCurrent, timeToEmptyNext)

\* MultiStageTool.tsx 190-230: the parallel (booster + core) phase of stage i.
\* The fuel bookkeeping (flow rate, time to empty, fuel consumed, fuel left)
\* is a chain of divisions and multiplications whose result is compared with
\* 0; each of them is rounded, to the grid of the integrator.
ParallelPhase(sim, i, massAbove) ==
  LET currentSim == sim[i]
      nextSim == sim[i + 1]
      thrustTotal == RAdd(currentSim.engineThrust, nextSim.engineThrust)
      mDotCurrent == FDiv(currentSim.engineThrust, currentSim.engineIsp)
      mDotNext == FDiv(nextSim.engineThrust, nextSim.engineIsp)
      mDotTotal == RAdd(mDotCurrent, mDotNext)
      ispEffective == RDiv(thrustTotal, mDotTotal)
      timeToEmptyCurrent == FDiv(currentSim.remainingFuel, mDotCurrent)
      timeToEmptyNext == FDiv(nextSim.remainingFuel, mDotNext)
      phaseTime == PhaseTime(timeToEmptyCurrent, timeToEmptyNext)
      fuelConsumedCurrent == FMul(mDotCurrent, phaseTime)
      fuelConsumedNext == FMul(mDotNext, phaseTime)
      totalMassStart == RAdd(RAdd(currentSim.dryMass, currentSim.remainingFuel), massAbove)
      totalFuelConsumed == RAdd(fuelConsumedCurrent, fuelConsumedNext)
      totalMassEnd == RSub(totalMassStart, totalFuelConsumed)
  IN  [deltaV |-> FMul(Fx(RMul(ispEffective, GRAVITY_EARTH)),
                       MathLog(RDiv(totalMassStart, totalMassEnd))),
       twrStart |-> RDiv(thrustTotal, totalMassStart),
       twrEnd |-> RDiv(thrustTotal, totalMassEnd),
       burnTime |-> phaseTime,
       totalMassStart |-> totalMassStart,
       totalMassEnd |-> totalMassEnd,
       phaseThrust |-> thrustTotal,
       phaseIsp |-> ispEffective,
       sim |-> [sim EXCEPT
                  ![i].remainingFuel = FSub(currentSim.remainingFuel, fuelConsumedCurrent),
                  ![i + 1].remainingFuel = FSub(nextSim.remainingFuel, fuelConsumedNext)]]

\* MultiStageTool.tsx 232-247: the serial phase of stage i.
SerialPhase(sim, i, massAbove) ==
  LET currentSim == sim[i]
      totalMassStart == RAdd(RAdd(currentSim.dryMass, currentSim.remainingFuel), massAbove)
      totalMassEnd == RAdd(RAdd(currentSim.dryMass, Zero), massAbove)
      mDot == RDiv(currentSim.engineThrust, currentSim.engineIsp)
  IN  [deltaV |-> FMul(Fx(RMul(currentSim.engineIsp, GRAVITY_EARTH)),
                       MathLog(RDiv(totalMassStart, totalMassEnd))),
       twrStart |-> RDiv(currentSim.engineThrust, totalMassStart),
       twrEnd |-> RDiv(currentSim.engineThrust, totalMassEnd),
       burnTime |-> RDiv(currentSim.remainingFuel, mDot),
       totalMassStart |-> totalMassStart,
       totalMassEnd |-> totalMassEnd,
       phaseThrust |-> currentSim.engineThrust,
       phaseIsp |-> currentSim.engineIsp,
       sim |-> [sim EXCEPT ![i].remainingFuel = Zero]]

\* MultiStageTool.tsx 249-264: the row pushed for stage i after its phase ph.
StageRow(cur, massAbove, isParallel, ph, cum) ==
  [id |-> cur.id, dryMass |-> cur.dryMass, fuelMass |-> cur.fuelMass,
   engineThrust |-> cur.engineThrust, engineIsp |-> cur.engineIsp,
   isEnabled |-> cur.isEnabled, stageType |-> cur.stageType,
   remainingFuel |-> cur.remainingFuel,
   totalMassStart |-> ph.totalMassStart, totalMassEnd |-> ph.totalMassEnd,
   massAbove |-> massAbove, deltaV |-> ph.deltaV, burnTime |-> ph.burnTime,
   twrStart |-> ph.twrStart, twrEnd |-> ph.twrEnd,
   cumulativeDeltaV |-> cum, isBurningWithNext |-> isParallel,
   phaseThrust |-> ph.phaseThrust, phaseIsp |-> ph.phaseIsp]

StagePush(C, i, massAbove, isParallel, ph, cum) ==
  [sim |-> ph.sim,
   computed |-> Append(C.computed, StageRow(ph.sim[i], massAbove, isParallel, ph, cum)),
   cumulativeDeltaV |-> cum]

StagePhase(C, i, massAbove, isParallel, ph) ==
  StagePush(C, i, massAbove, isParallel, ph, RAdd(C.cumulativeDeltaV, ph.deltaV))

\* Mutant of the phase selection: the row reports the staging-mode flag of the
\* stage in place of the pairing decided at line 179.
StageWithFlagReported(C, i, massAbove) ==
  StagePhase(C, i, massAbove, C.sim[i].stageType = "parallel",
             IF IsParallel(C.sim, i) THEN ParallelPhase(C.sim, i, massAbove)
             ELSE SerialPhase(C.sim, i, massAbove))

\* MultiStageTool.tsx 179-247: the pairing decision and the phase it selects.
StageWith(C, i, massAbove) ==
  StagePhase(C, i, massAbove, IsParallel(C.sim, i),
             IF IsParallel(C.sim, i) THEN ParallelPhase(C.sim, i, massAbove)
             ELSE SerialPhase(C.sim, i, massAbove))

\* MultiStageTool.tsx 166-265: one iteration of the loop over the stages,
\* from the locals C = [sim, computed, cumulativeDeltaV].
StageIteration(C, i, payload) ==
  IF ~C.sim[i].isEnabled THEN C
  ELSE StageWith(C, i, MassAbove(C.sim, i + 1, payload))

RECURSIVE StageLoop(_, _, _)
StageLoop(C, i, payload) ==
  IF i > Len(C.sim) THEN C ELSE StageLoop(StageIteration(C, i, payload), i + 1, payload)

\* computedStages as a function of (stages, payloadMass): the list returned.
computeStages(ss, payload) ==
  StageLoop([sim |-> CloneStages(ss), computed |-> <<>>, cumulativeDeltaV |-> Zero],
            1, payload).computed

----------------------------------------------------------------------------
(* Inputs.  Masses are given in kilograms and converted to the tonnes the  *)
(* API takes; the rocket is a 10 kgf engine on a few kilograms of stack,   *)
(* so that a flight lasts a handful of integration steps.                  *)

MaxTankUnits == 2

MaxSimTime == 6

MaxSweepUnits == 2

MaxStages == 3

Kg(k) == Norm(k, 1000)

Engines ==
  { [thrust |-> Norm(1, 100), isp |-> Whole(10), mass |-> Kg(1)],
    [thrust |-> Zero, isp |-> Whole(10), mass |-> Kg(1)] }

\* Earth-like gravity; a gravity that puts the 10 kg stack at TWR = 1.0001
\* exactly; an airless body.
Planets ==
  { [gravitySurface |-> GRAVITY_EARTH, radius |-> Whole(100), atmosphereHeight |-> Whole(50)],
    [gravitySurface |-> Norm(196133, 20002), radius |-> Whole(100), atmosphereHeight |-> Whole(50)],
    [gravitySurface |-> Norm(163, 100), radius |-> Whole(60), atmosphereHeight |-> Zero] }

SettingsSet(timeSteps, maxTimes) ==
  [gravityModel : {"constant", "variable"}, enableDrag : BOOLEAN,
   timeStep : timeSteps, maxTime : maxTimes]

ParamsSet(engines, payloads, tanks, mins, maxs, stepsT, stepsP) ==
  [engineCount : {1}, engine : engines, payloadMass : payloads, totalTankMass : tanks,
   tankDryWetRatio : {Norm(1, 2)},
   minPayloadMass : {Kg(1)}, maxPayloadMass : {Kg(5)}, stepPayloadMass : stepsP,
   minTotalTankMass : mins, maxTotalTankMass : maxs, stepTotalTankMass : stepsT]

ZeroState == <<Zero, Zero, Zero, Zero>>

LaunchIdle ==
  /\ pc = "idle" /\ tankTotalMassT = Zero /\ logInterval = Zero /\ payloadOverride = "none"
  /\ state = ZeroState /\ maxV = Zero /\ telemetry = <<>> /\ logTimer = Zero
  /\ result = "none" /\ peakAlt = Zero /\ stepped = FALSE

SweepIdle ==
  /\ spc = "idle" /\ optMode = "fuel" /\ sweepSettings = "none" /\ m = Zero
  /\ results = <<>> /\ simCalls = <<>>

StagesIdle ==
  /\ mpc = "idle" /\ stages = <<>> /\ payloadMass = Zero /\ simStages = <<>>
  /\ idx = 0 /\ computed = <<>> /\ cumulativeDeltaV = Zero

CallsIdle == launches = <<>> /\ evals = <<>>

MatrixIdle ==
  /\ xpc = "idle" /\ matrixSettings = "none" /\ payloadP = Zero /\ fuelF = Zero
  /\ data = <<>> /\ matrixCalls = <<>>

\* VideoAnalyzer.tsx, lines 32-33
MAX_CONCURRENT_REQUESTS == 3

MAX_PENDING_QUEUE_SIZE == 5

\* Bounds of the batch analysis: invocations of startAnalysisLoop, capture
\* times of a short video, pause and retry clicks.
MaxRuns == 2

MaxFrames == 2

MaxUserOps == 2

Runs == 1..MaxRuns

NoProducer == [pc |-> "none", currentTime |-> 0, stopped |-> FALSE]

AnalyzerIdle ==
  /\ analysisStatus = "idle" /\ isPausedRef = FALSE /\ shouldStopRef = FALSE
  /\ jobQueueRef = <<>> /\ activeRequestsRef = 0 /\ inFlight = {}
  /\ producers = [r \in Runs |-> NoProducer] /\ runs = 0
  /\ frames = 0 /\ provider = "flaky" /\ userOps = 0

----------------------------------------------------------------------------
(* simulateLaunch, one call, step by step.                                 *)

Altitude(st) == FSub(st[2], Fx(planet.radius))

Locals == [state |-> state, maxV |-> maxV, telemetry |-> telemetry, logTimer |-> logTimer]

Figures == LaunchFigures(tankTotalMassT, params, planet)

InitLaunch ==
  /\ pc = "call"
  /\ tankTotalMassT \in {Kg(4 * k) : k \in 0..MaxTankUnits}
  /\ params \in ParamsSet(Engines, {Kg(1), Kg(5)}, {Kg(4)}, {Kg(0)}, {Kg(4)}, {Kg(4)}, {Kg(4)})
  /\ planet \in Planets
  /\ settings \in SettingsSet({Zero, Norm(1, 2), One}, {Zero, Whole(3), Whole(MaxSimTime)})
  /\ logInterval \in {Zero, One}
  /\ payloadOverride \in {"none", Kg(5)}
  /\ state = ZeroState /\ maxV = Zero /\ telemetry = <<>> /\ logTimer = Zero
  /\ result = "none" /\ peakAlt = Zero /\ stepped = FALSE
  /\ SweepIdle /\ StagesIdle /\ CallsIdle /\ MatrixIdle /\ AnalyzerIdle

LaunchWith(f) ==
  IF GateCloses(f.twrStart)
  THEN /\ result' = GateResult(tankTotalMassT, f)
       /\ pc' = "done"
       /\ UNCHANGED <<state, maxV, telemetry, logTimer>>
  ELSE /\ state' = LoopEntry(planet, f).state
       /\ maxV' = LoopEntry(planet, f).maxV
       /\ telemetry' = LoopEntry(planet, f).telemetry
       /\ logTimer' = LoopEntry(planet, f).logTimer
       /\ pc' = "loop"
       /\ UNCHANGED result

\* physics.ts 86-142: the figures, the liftoff gate and the loop entry.
Launch ==
  /\ pc = "call"
  /\ \E f \in {Figures} : LaunchWith(f)
  /\ UNCHANGED <<tankTotalMassT, params, planet, settings, logInterval, payloadOverride,
                 peakAlt, stepped>>
  /\ UNCHANGED <<sweepVars, stageVars, callVars, matrixVars, analyzerVars>>

IterateTo(L) ==
  /\ state' = L.state
  /\ maxV' = L.maxV
  /\ telemetry' = L.telemetry
  /\ logTimer' = L.logTimer
  /\ peakAlt' = RMax(peakAlt, Altitude(L.state))

\* physics.ts 144-243: one iteration of the while loop.
Iterate ==
  /\ pc = "loop"
  /\ LoopContinues(Locals, planet, settings)
  /\ \E f \in {Figures} :
       \E L \in {LoopBody(Locals, planet, params, settings, logInterval, f)} : IterateTo(L)
  /\ stepped' = TRUE
  /\ UNCHANGED <<pc, tankTotalMassT, params, planet, settings, logInterval,
                 payloadOverride, result>>
  /\ UNCHANGED <<sweepVars, stageVars, callVars, matrixVars, analyzerVars>>

\* physics.ts 144-153, 245-256: the loop ends and the result is returned.
Return ==
  /\ pc = "loop"
  /\ ~LoopContinues(Locals, planet, settings)
  /\ \E f \in {Figures} : result' = LoopResult(tankTotalMassT, Locals, planet, logInterval, f)
  /\ pc' = "done"
  /\ UNCHANGED <<tankTotalMassT, params, planet, settings, logInterval, payloadOverride,
                 state, maxV, telemetry, logTimer, peakAlt, stepped>>
  /\ UNCHANGED <<sweepVars, stageVars, callVars, matrixVars, analyzerVars>>

NextLaunch == Launch \/ Iterate \/ Return

Spec == InitLaunch /\ [][NextLaunch]_vars

\* simulateLaunch is synchronous code: once called it keeps executing.
FairSpec == Spec /\ WF_vars(NextLaunch)

----------------------------------------------------------------------------
(* simulateLaunch with tanks whose burn time is no multiple of the time    *)
(* step (1 kg/s of flow on 0.7, 2 and 2.7 kg of fuel): the burn ends       *)
(* inside an RK4 step.                                                     *)

InitBurn ==
  /\ pc = "call"
  /\ tankTotalMassT \in {Norm(7, 5000), Kg(4), Norm(27, 5000)}
  /\ params \in ParamsSet({CHOOSE e \in Engines : e.thrust # Zero}, {Kg(1), Kg(5)}, {Kg(4)},
                          {Kg(0)}, {Kg(4)}, {Kg(4)}, {Kg(4)})
  /\ planet \in Planets
  /\ settings \in SettingsSet({Norm(1, 2), One}, {Whole(3), Whole(MaxSimTime)})
  /\ logInterval \in {Zero, Norm(1, 2), Norm(3, 4), One}
  /\ payloadOverride = "none"
  /\ state = ZeroState /\ maxV = Zero /\ telemetry = <<>> /\ logTimer = Zero
  /\ result = "none" /\ peakAlt = Zero /\ stepped = FALSE
  /\ SweepIdle /\ StagesIdle /\ CallsIdle /\ MatrixIdle /\ AnalyzerIdle

SpecBurn == InitBurn /\ [][NextLaunch]_vars

----------------------------------------------------------------------------
(* getDerivatives applied to one state vector: times before, at and after  *)
(* the end of the burn, radii below the surface, inside and above the      *)
(* atmosphere, velocities of both signs, masses below and above the dry    *)
(* mass.                                                                   *)

DeriveStates(pl, f) ==
  {<<t, RAdd(pl.radius, d), v, mm>> :
     t \in {Zero, One, f.burnTime, RAdd(f.burnTime, One)},
     d \in {Whole(-1), Zero, Whole(10), pl.atmosphereHeight,
            RAdd(pl.atmosphereHeight, Whole(10))},
     v \in {Whole(-2), Zero, Whole(3)},
     mm \in {RDiv(f.dryMassKg, Whole(2)), f.dryMassKg,
             RAdd(f.dryMassKg, One), f.totalMassKg}}

InitDerive ==
  /\ pc = "derive"
  /\ tankTotalMassT = Kg(4)
  /\ params \in ParamsSet({CHOOSE e \in Engines : e.thrust # Zero}, {Kg(1)}, {Kg(4)},
                          {Kg(0)}, {Kg(4)}, {Kg(4)}, {Kg(4)})
  /\ planet \in Planets
  /\ settings \in SettingsSet({One}, {Whole(3)})
  /\ state \in DeriveStates(planet, Figures)
  /\ logInterval = Zero /\ payloadOverride = "none"
  /\ maxV = Zero /\ telemetry = <<>> /\ logTimer = Zero
  /\ result = "none" /\ peakAlt = Zero /\ stepped = FALSE
  /\ SweepIdle /\ StagesIdle /\ CallsIdle /\ MatrixIdle /\ AnalyzerIdle

\* One call getDerivatives(state, planet, params, settings, fuelMassKg,
\* totalMassKg, burnTime), as at physics.ts 210; the terms it adds up are
\* kept next to the vector returned.
Derivatives ==
  /\ pc = "derive"
  /\ \E f \in {Figures} :
       result' = [k |-> getDerivatives(state, planet, params, settings, f.fuelMassKg,
                                       f.totalMassKg, f.burnTime),
                  terms |-> DerivativeTerms(state, planet, params, settings, f.fuelMassKg,
                                            f.totalMassKg, f.burnTime)]
  /\ pc' = "derived"
  /\ UNCHANGED <<tankTotalMassT, params, planet, settings, logInterval, payloadOverride,
                 state, maxV, telemetry, logTimer, peakAlt, stepped>>
  /\ UNCHANGED <<sweepVars, stageVars, callVars, matrixVars, analyzerVars>>

NextDerive == Derivatives

SpecDerive == InitDerive /\ [][NextDerive]_vars

----------------------------------------------------------------------------
(* simulateLaunch called with the rockets of the engine table, in tonnes,  *)
(* and maxTime = 0: the figures, the gate and the return, no integration.  *)

\* constants.ts: { id: 'titan', thrust: 400, isp: 240, mass: 12 } and
\* { id: 'rcs', thrust: 1.5, isp: 120, mass: 0.05 }
TableEngines ==
  { [thrust |-> Whole(400), isp |-> Whole(240), mass |-> Whole(12)],
    [thrust |-> Norm(3, 2), isp |-> Whole(120), mass |-> Norm(1, 20)] }

\* constants.ts: PLANETS, 'earth'
TableEarth ==
  [gravitySurface |-> GRAVITY_EARTH, radius |-> Whole(315000),
   atmosphereHeight |-> Whole(30000)]

InitFigures ==
  /\ pc = "call"
  /\ tankTotalMassT \in {Whole(10 * k) : k \in 0..(MaxTankUnits + 1)}
  /\ params \in [engineCount : {1, 2}, engine : TableEngines,
                 payloadMass : {Whole(10), Whole(20)}, totalTankMass : {Whole(30)},
                 tankDryWetRatio : {Norm(1, 10), Norm(1, 2)},
                 minPayloadMass : {Whole(1)}, maxPayloadMass : {Whole(5)},
                 stepPayloadMass : {Whole(1)}, minTotalTankMass : {Whole(10)},
                 maxTotalTankMass : {Whole(30)}, stepTotalTankMass : {Whole(10)}]
  /\ planet = TableEarth
  /\ settings \in SettingsSet({Norm(1, 10)}, {Zero})
  /\ logInterval \in {Zero, One}
  /\ payloadOverride = "none"
  /\ state = ZeroState /\ maxV = Zero /\ telemetry = <<>> /\ logTimer = Zero
  /\ result = "none" /\ peakAlt = Zero /\ stepped = FALSE
  /\ SweepIdle /\ StagesIdle /\ CallsIdle /\ MatrixIdle /\ AnalyzerIdle

NextFigures == Launch \/ Return

SpecFigures == InitFigures /\ [][NextFigures]_vars

----------------------------------------------------------------------------
(* runOptimization, one call, point by point.  handleCalculate calls       *)
(* runOptimization(optMode, params, planet, settings); the function        *)
(* declares (params, planet, settings) and holds no mode.                  *)

InitSweep ==
  /\ spc = "call"
  /\ optMode \in {"payload", "fuel"}
  /\ params \in ParamsSet(Engines, {Kg(1)}, {Kg(4)}, {Kg(0), Kg(4)},
                          {Kg(4 * k) : k \in 0..MaxSweepUnits},
                          {Kg(-4), Zero, Kg(3), Kg(4)}, {Kg(4)})
  /\ planet \in {pl \in Planets : pl.gravitySurface = GRAVITY_EARTH}
  /\ settings \in SettingsSet({Norm(1, 20), One}, {Whole(2)})
  /\ sweepSettings = "none" /\ m = Zero /\ results = <<>> /\ simCalls = <<>>
  /\ LaunchIdle /\ StagesIdle /\ CallsIdle /\ MatrixIdle /\ AnalyzerIdle

\* physics.ts 267-276: the validations and the sweep settings.
RunOptimization ==
  /\ spc = "call"
  /\ IF SweepRejected(params)
     THEN /\ results' = <<>>
          /\ spc' = "done"
          /\ UNCHANGED <<sweepSettings, m>>
     ELSE /\ sweepSettings' = SweepSettings(settings)
          /\ m' = params.minTotalTankMass
          /\ results' = <<>>
          /\ spc' = "loop"
  /\ UNCHANGED <<optMode, simCalls>>
  /\ UNCHANGED <<launchVars, stageVars, callVars, matrixVars, analyzerVars>>

\* physics.ts 278-281: one iteration of the for loop.
SweepIterate ==
  /\ spc = "loop"
  /\ SweepContinues(m, params)
  /\ results' = Append(results, SweepPoint(m, params, planet, sweepSettings))
  /\ simCalls' = Append(simCalls, [tank |-> m, payload |-> params.payloadMass,
                                   timeStep |-> sweepSettings.timeStep,
                                   logInterval |-> Zero])
  /\ m' = RAdd(m, params.stepTotalTankMass)
  /\ UNCHANGED <<spc, optMode, sweepSettings>>
  /\ UNCHANGED <<launchVars, stageVars, callVars, matrixVars, analyzerVars>>

\* physics.ts 278, 283: the loop ends, results is returned.
SweepReturn ==
  /\ spc = "loop"
  /\ ~SweepContinues(m, params)
  /\ spc' = "done"
  /\ UNCHANGED <<optMode, sweepSettings, m, results, simCalls>>
  /\ UNCHANGED <<launchVars, stageVars, callVars, matrixVars, analyzerVars>>

NextSweep == RunOptimization \/ SweepIterate \/ SweepReturn

SpecSweep == InitSweep /\ [][NextSweep]_vars

----------------------------------------------------------------------------
(* computedStages, one evaluation, stage by stage.                         *)

StageKinds ==
  { [dryMass |-> Whole(1), fuelMass |-> Whole(4), engineThrust |-> Whole(40),
     engineIsp |-> Whole(200)],
    [dryMass |-> Whole(1), fuelMass |-> Whole(3), engineThrust |-> Whole(10),
     engineIsp |-> Whole(100)] }

ZeroThrustKind ==
  [dryMass |-> Whole(1), fuelMass |-> Whole(2), engineThrust |-> Zero,
   engineIsp |-> Whole(100)]

StageChoices ==
  {[kind |-> k, isEnabled |-> e, stageType |-> t] :
      k \in StageKinds, e \in BOOLEAN, t \in {"serial", "parallel"}}
  \cup {[kind |-> ZeroThrustKind, isEnabled |-> TRUE, stageType |-> t] :
          t \in {"serial", "parallel"}}

MakeStages(c) ==
  [k \in 1..Len(c) |->
     [id |-> k, dryMass |-> c[k].kind.dryMass, fuelMass |-> c[k].kind.fuelMass,
      engineThrust |-> c[k].kind.engineThrust, engineIsp |-> c[k].kind.engineIsp,
      isEnabled |-> c[k].isEnabled, stageType |-> c[k].stageType]]

StageLists ==
  {MakeStages(c) : c \in UNION {[1..n -> StageChoices] : n \in 1..MaxStages}}

InitStages ==
  /\ mpc = "call"
  /\ stages \in StageLists
  /\ payloadMass \in {Whole(1)}
  /\ simStages = <<>> /\ idx = 0 /\ computed = <<>> /\ cumulativeDeltaV = Zero
  /\ LaunchIdle /\ SweepIdle /\ CallsIdle /\ MatrixIdle /\ AnalyzerIdle
  /\ params \in ParamsSet({CHOOSE e \in Engines : e.thrust # Zero}, {Kg(1)}, {Kg(4)},
                          {Kg(0)}, {Kg(4)}, {Kg(4)}, {Kg(4)})
  /\ planet \in {pl \in Planets : pl.gravitySurface = GRAVITY_EARTH \/ pl.atmosphereHeight = Zero}
  /\ settings \in SettingsSet({One}, {Whole(2)}) \cap
                    {se \in SettingsSet({One}, {Whole(2)}) :
                        se.gravityModel = "constant" /\ ~se.enableDrag}

\* MultiStageTool.tsx 159-163: the locals before the loop.
ComputeEnter ==
  /\ mpc = "call"
  /\ simStages' = CloneStages(stages)
  /\ computed' = <<>>
  /\ cumulativeDeltaV' = Zero
  /\ idx' = 1
  /\ mpc' = "loop"
  /\ UNCHANGED <<stages, payloadMass>>
  /\ UNCHANGED <<launchVars, sweepVars, callVars, matrixVars, analyzerVars>>

\* Mutant of the clone: simStages holds the input objects themselves, the
\* depletion of a phase is written to the fuel of the input stage.
InputStagesAliased(ss, sim) ==
  [k \in 1..Len(ss) |-> [ss[k] EXCEPT !.fuelMass = sim[k].remainingFuel]]

\* MultiStageTool.tsx 163, 226-227, 246: the writes of an iteration go to the
\* objects the spread created; the elements of `stages` keep their fields.
InputStages(ss, sim) == ss

StageTo(C) ==
  /\ simStages' = C.sim
  /\ computed' = C.computed
  /\ cumulativeDeltaV' = C.cumulativeDeltaV
  /\ stages' = InputStages(stages, C.sim)

\* MultiStageTool.tsx 166-265: one iteration of the for loop.
StageStep ==
  /\ mpc = "loop"
  /\ idx <= Len(simStages)
  /\ StageTo(StageIteration([sim |-> simStages, computed |-> computed,
                              cumulativeDeltaV |-> cumulativeDeltaV], idx, payloadMass))
  /\ idx' = idx + 1
  /\ UNCHANGED <<mpc, payloadMass>>
  /\ UNCHANGED <<launchVars, sweepVars, callVars, matrixVars, analyzerVars>>

\* MultiStageTool.tsx 166, 267: the loop ends, results is returned.
ComputeReturn ==
  /\ mpc = "loop"
  /\ idx > Len(simStages)
  /\ mpc' = "done"
  /\ UNCHANGED <<stages, payloadMass, simStages, idx, computed, cumulativeDeltaV>>
  /\ UNCHANGED <<launchVars, sweepVars, callVars, matrixVars, analyzerVars>>

NextStages == ComputeEnter \/ StageStep \/ ComputeReturn

SpecStages == InitStages /\ [][NextStages]_vars

----------------------------------------------------------------------------
(* computedStages on stage lists with a booster whose flow rate, 400 / 240 *)
(* t/s, has no finite expansion: the products and quotients of its fuel    *)
(* bookkeeping are rounded ones.  Thrust and Isp are positive throughout.  *)

BoosterKind ==
  [dryMass |-> Whole(2), fuelMass |-> Whole(20), engineThrust |-> Whole(400),
   engineIsp |-> Whole(240)]

FuelStageLists ==
  {MakeStages(c) :
     c \in UNION {[1..n -> {[kind |-> k, isEnabled |-> e, stageType |-> t] :
                              k \in StageKinds \cup {BoosterKind}, e \in BOOLEAN,
                              t \in {"serial", "parallel"}}] : n \in 1..(MaxStages - 1)}}

InitFuel ==
  /\ mpc = "call"
  /\ stages \in FuelStageLists
  /\ payloadMass \in {Whole(1)}
  /\ simStages = <<>> /\ idx = 0 /\ computed = <<>> /\ cumulativeDeltaV = Zero
  /\ LaunchIdle /\ SweepIdle /\ CallsIdle /\ MatrixIdle /\ AnalyzerIdle
  /\ params \in ParamsSet({CHOOSE e \in Engines : e.thrust # Zero}, {Kg(1)}, {Kg(4)},
                          {Kg(0)}, {Kg(4)}, {Kg(4)}, {Kg(4)})
  /\ planet \in {pl \in Planets : pl.gravitySurface = GRAVITY_EARTH}
  /\ settings \in {se \in SettingsSet({One}, {Whole(2)}) :
                      se.gravityModel = "constant" /\ ~se.enableDrag}

SpecFuel == InitFuel /\ [][NextStages]_vars

----------------------------------------------------------------------------
(* Two invocations of simulateLaunch and two evaluations of computedStages, *)
(* their steps interleaved in every order.  All four read the same params, *)
(* planet, settings, stages and payloadMass; each simulateLaunch has its   *)
(* own tank mass and log interval.                                         *)

Invocations == {1, 2}

\* physics.ts 130-142: `let state`, `let maxV`, `const telemetry`,
\* `let logTimer` are declared inside simulateLaunch: invocation c reads its own.
LocalsOf(ls, c) == ls[c].L

\* Mutant of the assignment: the locals are one module-level set of variables,
\* an iteration of one invocation writes them for every invocation.
StoreLocalsShared(ls, c, L) == [d \in DOMAIN ls |-> [ls[d] EXCEPT !.L = L]]

\* physics.ts 155, 191, 205, 237: an iteration assigns the locals of its own
\* invocation.
StoreLocals(ls, c, L) == [ls EXCEPT ![c].L = L]

PairedStages ==
  {MakeStages(<<[kind |-> k, isEnabled |-> TRUE, stageType |-> t],
                [kind |-> k, isEnabled |-> e, stageType |-> "serial"]>>) :
     k \in {CHOOSE sk \in StageKinds : TRUE}, t \in {"serial", "parallel"}, e \in BOOLEAN}

InitCalls ==
  /\ launches \in {ls \in [Invocations ->
        [pc : {"call"}, tank : {Kg(0), Kg(4)}, logInterval : {Zero, One},
         L : {[state |-> ZeroState, maxV |-> Zero, telemetry |-> <<>>, logTimer |-> Zero]},
         result : {"none"}]] : ls[1].logInterval = One}
  /\ evals \in [Invocations ->
        [mpc : {"call"}, idx : {0},
         C : {[sim |-> <<>>, computed |-> <<>>, cumulativeDeltaV |-> Zero]}]]
  /\ params \in ParamsSet({CHOOSE e \in Engines : e.thrust # Zero}, {Kg(1)}, {Kg(4)},
                          {Kg(0)}, {Kg(4)}, {Kg(4)}, {Kg(4)})
  /\ planet \in {pl \in Planets : pl.gravitySurface = GRAVITY_EARTH}
  /\ settings \in {se \in SettingsSet({One}, {Whole(2)}) : se.gravityModel = "variable"}
  /\ stages \in PairedStages
  /\ payloadMass = Whole(1)
  /\ pc = "idle" /\ tankTotalMassT = Zero /\ logInterval = Zero /\ payloadOverride = "none"
  /\ state = ZeroState /\ maxV = Zero /\ telemetry = <<>> /\ logTimer = Zero
  /\ result = "none" /\ peakAlt = Zero /\ stepped = FALSE
  /\ mpc = "idle" /\ simStages = <<>> /\ idx = 0 /\ computed = <<>>
  /\ cumulativeDeltaV = Zero
  /\ SweepIdle /\ MatrixIdle /\ AnalyzerIdle

CallFrame == UNCHANGED <<launchVars, sweepVars, stageVars, matrixVars, analyzerVars>>

\* physics.ts 86-142 in invocation c.
CallLaunch(c) ==
  /\ launches[c].pc = "call"
  /\ \E f \in {LaunchFigures(launches[c].tank, params, planet)} :
       launches' = [launches EXCEPT ![c] =
          IF GateCloses(f.twrStart)
          THEN [@ EXCEPT !.pc = "done", !.result = GateResult(launches[c].tank, f)]
          ELSE [@ EXCEPT !.pc = "loop", !.L = LoopEntry(planet, f)]]
  /\ UNCHANGED evals
  /\ CallFrame

\* physics.ts 144-243 in invocation c: one iteration of its while loop.
CallIterate(c) ==
  /\ launches[c].pc = "loop"
  /\ LoopContinues(LocalsOf(launches, c), planet, settings)
  /\ \E f \in {LaunchFigures(launches[c].tank, params, planet)} :
       \E L \in {LoopBody(LocalsOf(launches, c), planet, params, settings,
                           launches[c].logInterval, f)} :
          launches' = StoreLocals(launches, c, L)
  /\ UNCHANGED evals
  /\ CallFrame

\* physics.ts 144-153, 245-256 in invocation c.
CallReturn(c) ==
  /\ launches[c].pc = "loop"
  /\ ~LoopContinues(LocalsOf(launches, c), planet, settings)
  /\ \E f \in {LaunchFigures(launches[c].tank, params, planet)} :
       launches' = [launches EXCEPT
          ![c].pc = "done",
          ![c].result = LoopResult(launches[c].tank, LocalsOf(launches, c), planet,
                                   launches[c].logInterval, f)]
  /\ UNCHANGED evals
  /\ CallFrame

\* MultiStageTool.tsx 159-163 in evaluation c.
EvalEnter(c) ==
  /\ evals[c].mpc = "call"
  /\ evals' = [evals EXCEPT ![c] =
        [mpc |-> "loop", idx |-> 1,
         C |-> [sim |-> CloneStages(stages), computed |-> <<>>, cumulativeDeltaV |-> Zero]]]
  /\ UNCHANGED launches
  /\ CallFrame

\* MultiStageTool.tsx 166-265 in evaluation c: one iteration of its for loop.
EvalStep(c) ==
  /\ evals[c].mpc = "loop"
  /\ evals[c].idx <= Len(evals[c].C.sim)
  /\ \E C \in {StageIteration(evals[c].C, evals[c].idx, payloadMass)} :
       evals' = [evals EXCEPT ![c].C = C, ![c].idx = @ + 1]
  /\ UNCHANGED launches
  /\ CallFrame

\* MultiStageTool.tsx 166, 267 in evaluation c.
EvalReturn(c) ==
  /\ evals[c].mpc = "loop"
  /\ evals[c].idx > Len(evals[c].C.sim)
  /\ evals' = [evals EXCEPT ![c].mpc = "done"]
  /\ UNCHANGED launches
  /\ CallFrame

NextCalls ==
  \E c \in Invocations :
     \/ CallLaunch(c)
     \/ CallIterate(c)
     \/ CallReturn(c)
     \/ EvalEnter(c)
     \/ EvalStep(c)
     \/ EvalReturn(c)

SpecCalls == InitCalls /\ [][NextCalls]_vars

----------------------------------------------------------------------------
(* calculateMatrix, one run, grid point by grid point.  The steps of the   *)
(* grid are at least 0.1 t: the fuel range starts at a stack that flies    *)
(* and goes on to stacks the engine cannot lift.                           *)

MatrixParams ==
  {[minPayload |-> Kg(1), maxPayload |-> maxP, stepPayload |-> stepP] @@ pa :
     maxP \in {Kg(1), Kg(101)}, stepP \in {Zero, Norm(1, 10)},
     pa \in ParamsSet({CHOOSE e \in Engines : e.thrust # Zero}, {Kg(1)}, {Kg(4)},
                      {Kg(4)}, {Kg(4), Kg(104)}, {Kg(4), Norm(1, 10)}, {Kg(4)})}

InitMatrix ==
  /\ xpc = "call"
  /\ params \in MatrixParams
  /\ planet \in {pl \in Planets : pl.gravitySurface = GRAVITY_EARTH}
  /\ settings \in SettingsSet({Norm(1, 20), Norm(1, 10), Norm(1, 5), One}, {One})
  /\ matrixSettings = "none" /\ payloadP = Zero /\ fuelF = Zero
  /\ data = <<>> /\ matrixCalls = <<>>
  /\ LaunchIdle /\ SweepIdle /\ StagesIdle /\ CallsIdle /\ AnalyzerIdle

MatrixFrame ==
  UNCHANGED <<launchVars, sweepVars, stageVars, callVars, analyzerVars>>

\* calculateMatrix, lines 136-142: the locals and the start of the outer loop.
CalculateMatrix ==
  /\ xpc = "call"
  /\ matrixSettings' = MatrixSettings(settings)
  /\ payloadP' = params.minPayload
  /\ data' = <<>>
  /\ xpc' = "outer"
  /\ UNCHANGED <<fuelF, matrixCalls>>
  /\ MatrixFrame

\* line 142 (test of the outer loop true), line 143 (start of the inner loop).
MatrixRow ==
  /\ xpc = "outer"
  /\ RLe(payloadP, params.maxPayload)
  /\ fuelF' = params.minTotalTankMass
  /\ xpc' = "inner"
  /\ UNCHANGED <<matrixSettings, payloadP, data, matrixCalls>>
  /\ MatrixFrame

\* lines 143-157: one grid point.
MatrixPoint ==
  /\ xpc = "inner"
  /\ RLe(fuelF, params.maxTotalTankMass)
  /\ \E res \in {simulateLaunch(fuelF, IterationParams(params, payloadP), planet,
                                 matrixSettings, Zero)} :
       data' = Append(data, MatrixPointOf(payloadP, fuelF, res))
  /\ matrixCalls' = Append(matrixCalls, [tank |-> fuelF, payload |-> payloadP,
                                         timeStep |-> matrixSettings.timeStep,
                                         logInterval |-> Zero])
  /\ fuelF' = RAdd(fuelF, MatrixStep(params.stepTotalTankMass))
  /\ UNCHANGED <<xpc, matrixSettings, payloadP>>
  /\ MatrixFrame

\* line 143 (test of the inner loop false), line 142 (p += stepP).
MatrixRowEnd ==
  /\ xpc = "inner"
  /\ ~RLe(fuelF, params.maxTotalTankMass)
  /\ payloadP' = RAdd(payloadP, MatrixStep(params.stepPayload))
  /\ xpc' = "outer"
  /\ UNCHANGED <<matrixSettings, fuelF, data, matrixCalls>>
  /\ MatrixFrame

\* line 142 (test of the outer loop false), lines 159-160: setData(results).
MatrixReturn ==
  /\ xpc = "outer"
  /\ ~RLe(payloadP, params.maxPayload)
  /\ xpc' = "done"
  /\ UNCHANGED <<matrixSettings, payloadP, fuelF, data, matrixCalls>>
  /\ MatrixFrame

NextMatrix == CalculateMatrix \/ MatrixRow \/ MatrixPoint \/ MatrixRowEnd \/ MatrixReturn

SpecMatrix == InitMatrix /\ [][NextMatrix]_vars

----------------------------------------------------------------------------
(* VideoAnalyzer: the batch analysis.  JavaScript runs one callback at a   *)
(* time, so every action is the code between two awaits: a click handler,  *)
(* the resumption of startAnalysisLoop after a timer or the seeked event,  *)
(* or the then/catch/finally chain of one callAI promise.                  *)

\* The refs the consumer works on.
Store == [queue |-> jobQueueRef, active |-> activeRequestsRef, inFlight |-> inFlight]

\* jobQueueRef.current.filter(j => j.status === 'pending').length
PendingCount(q) == Cardinality({i \in DOMAIN q : q[i].status = "pending"})

\* findIndex(j => j.status === 'pending'), with 0 for -1
PendingIndex(q) ==
  IF \E i \in DOMAIN q : q[i].status = "pending"
  THEN CHOOSE i \in DOMAIN q :
         q[i].status = "pending" /\ \A j \in 1..(i - 1) : q[j].status # "pending"
  ELSE 0

\* processQueue, the synchronous loop: every job it takes becomes
\* 'processing', counts as active and has its callAI promise started.
RECURSIVE processQueue(_)
processQueue(S) ==
  IF S.active < MAX_CONCURRENT_REQUESTS /\ PendingIndex(S.queue) # 0
  THEN LET jobIndex == PendingIndex(S.queue) IN
       processQueue([queue    |-> [S.queue EXCEPT ![jobIndex].status = "processing"],
                     active   |-> S.active + 1,
                     inFlight |-> S.inFlight \cup {S.queue[jobIndex].id}])
  ELSE S

\* then (538-547) / catch (548-555): the job is looked up by id in the
\* queue of the moment; a job that is no longer there is left alone.
SettleJob(job, ok) ==
  IF ok THEN [job EXCEPT !.status = "done", !.base64Data = FALSE]
        ELSE [job EXCEPT !.status = "error"]

ReleaseLeaks(S, id) == [S EXCEPT !.inFlight = S.inFlight \ {id}]

\* finally (556-558): the counter goes down whatever run started the request.
Release(S, id) == [S EXCEPT !.active = S.active - 1, !.inFlight = S.inFlight \ {id}]

Settled(S, id, ok) ==
  processQueue(Release(
    [S EXCEPT !.queue = [i \in DOMAIN S.queue |->
                           IF S.queue[i].id = id THEN SettleJob(S.queue[i], ok)
                                                 ELSE S.queue[i]]], id))

\* callAI throws on any failure of the provider (a rejected key, no network,
\* an answer that does not parse), lines 303-459.
Outcomes(pr) == IF pr = "failing" THEN {FALSE} ELSE BOOLEAN

\* retryJob / retryAllFailed: the jobs that can be retried
Retryable(job) == job.status = "error" /\ job.base64Data

\* What the producer sees and changes between two awaits.
Ctx ==
  [S |-> Store, status |-> analysisStatus,
   shouldStop |-> shouldStopRef, isPaused |-> isPausedRef]

At(X, pcv, t) == [S |-> X.S, status |-> X.status, pc |-> pcv, currentTime |-> t]

Poked(X) == [X EXCEPT !.S = processQueue(X.S)]

\* waitForCompletion, lines 663-671
WaitForCompletion(X, t) ==
  IF (X.S.active > 0 \/ PendingCount(X.S.queue) > 0) /\ ~X.shouldStop
  THEN At(X, "wait", t)
  ELSE At([X EXCEPT !.status = "idle"], "done", t)

\* lines 622-633: the backpressure loop, then the seek
Backpressure(X, t) ==
  IF PendingCount(X.S.queue) >= MAX_PENDING_QUEUE_SIZE /\ ~X.shouldStop
  THEN At(X, "backpressure", t)
  ELSE At(X, "seek", t)

\* lines 615-618: the pause loop
PauseWait(X, t) ==
  IF X.isPaused /\ ~X.shouldStop THEN At(X, "pause", t) ELSE Backpressure(X, t)

\* lines 611-612 and 673: currentTime counts capture steps of 1 / fps,
\* frames of them lie below maxDuration.
LoopTop(X, t) ==
  IF t < frames /\ ~X.shouldStop THEN PauseWait(X, t) ELSE WaitForCompletion(X, t)

\* lines 646-651; Math.random ids are taken to be distinct
NewJob(r, t) == [id |-> <<r, t>>, status |-> "pending", base64Data |-> TRUE]

\* lines 638-656: capture, push, processQueue
Captured(X, r, t) == Poked([X EXCEPT !.S.queue = Append(X.S.queue, NewJob(r, t))])

\* startAnalysisLoop resumed after the await it is parked at.
Resumed(X, r, p) ==
  CASE p.pc = "pause"        -> PauseWait(X, p.currentTime)
    [] p.pc = "backpressure" -> Backpressure(Poked(X), p.currentTime)
    [] p.pc = "seek"         -> At(X, "render", p.currentTime)
    [] p.pc = "render"       -> LoopTop(Captured(X, r, p.currentTime), p.currentTime + 1)
    [] p.pc = "wait"         -> WaitForCompletion(Poked(X), p.currentTime)

Alive(p) == p.pc \notin {"none", "done"}

InstallStore(S) ==
  /\ jobQueueRef' = S.queue /\ activeRequestsRef' = S.active /\ inFlight' = S.inFlight

Install(N, r) ==
  /\ InstallStore(N.S)
  /\ analysisStatus' = N.status
  /\ producers' = [producers EXCEPT ![r].pc = N.pc, ![r].currentTime = N.currentTime]

AnalyzerFrame == UNCHANGED <<launchVars, sweepVars, stageVars, callVars, matrixVars>>

\* The analyzer shares no state with the calculators; they rest while it runs.
OtherToolsIdle ==
  /\ LaunchIdle /\ SweepIdle /\ StagesIdle /\ CallsIdle /\ MatrixIdle
  /\ params = CHOOSE pa \in ParamsSet({CHOOSE e \in Engines : e.thrust # Zero}, {Kg(1)},
                                      {Kg(4)}, {Kg(0)}, {Kg(4)}, {Kg(4)}, {Kg(4)}) : TRUE
  /\ planet = CHOOSE pl \in Planets : pl.gravitySurface = GRAVITY_EARTH
  /\ settings = CHOOSE se \in SettingsSet({One}, {Whole(2)}) : TRUE

InitAnalyzer ==
  /\ analysisStatus = "idle" /\ isPausedRef = FALSE /\ shouldStopRef = FALSE
  /\ jobQueueRef = <<>> /\ activeRequestsRef = 0 /\ inFlight = {}
  /\ producers = [r \in Runs |-> NoProducer] /\ runs = 0 /\ userOps = 0
  /\ frames \in 1..MaxFrames
  /\ provider = "flaky"
  /\ OtherToolsIdle

\* startAnalysisLoop, lines 589-633: the Start button is rendered while the
\* status is 'idle' (line 823).  Requests of an earlier run stay in flight.
startAnalysisLoop ==
  /\ analysisStatus = "idle" /\ runs < MaxRuns
  /\ shouldStopRef' = FALSE /\ isPausedRef' = FALSE
  /\ runs' = runs + 1
  /\ \E N \in {LoopTop([S |-> [queue |-> <<>>, active |-> 0, inFlight |-> inFlight],
                        status |-> "running", shouldStop |-> FALSE,
                        isPaused |-> FALSE], 0)} : Install(N, runs + 1)
  /\ UNCHANGED <<frames, provider, userOps>>
  /\ AnalyzerFrame

\* stopAnalysis, lines 676-680 (button of line 852).  stopped records, for
\* every invocation still alive, that stop was requested during it.
stopAnalysis ==
  /\ analysisStatus # "idle"
  /\ shouldStopRef' = TRUE
  /\ analysisStatus' = "idle"
  /\ jobQueueRef' = <<>>
  /\ producers' = [r \in Runs |-> IF Alive(producers[r])
                                  THEN [producers[r] EXCEPT !.stopped = TRUE]
                                  ELSE producers[r]]
  /\ UNCHANGED <<isPausedRef, activeRequestsRef, inFlight, runs, frames, provider, userOps>>
  /\ AnalyzerFrame

\* line 844
Pause ==
  /\ analysisStatus = "running" /\ userOps < MaxUserOps
  /\ isPausedRef' = TRUE /\ analysisStatus' = "paused"
  /\ userOps' = userOps + 1
  /\ UNCHANGED <<shouldStopRef, jobQueueRef, activeRequestsRef, inFlight, producers,
                 runs, frames, provider>>
  /\ AnalyzerFrame

\* line 848
Resume ==
  /\ analysisStatus = "paused"
  /\ isPausedRef' = FALSE /\ analysisStatus' = "running"
  /\ UNCHANGED <<shouldStopRef, jobQueueRef, activeRequestsRef, inFlight, producers,
                 runs, frames, provider, userOps>>
  /\ AnalyzerFrame

\* retryJob, lines 565-572
retryJob(i) ==
  /\ userOps < MaxUserOps
  /\ i \in DOMAIN jobQueueRef /\ Retryable(jobQueueRef[i])
  /\ InstallStore(processQueue([Store EXCEPT !.queue[i].status = "pending"]))
  /\ userOps' = userOps + 1
  /\ UNCHANGED <<analysisStatus, isPausedRef, shouldStopRef, producers, runs, frames,
                 provider>>
  /\ AnalyzerFrame

\* retryAllFailed, lines 574-587
retryAllFailed ==
  /\ userOps < MaxUserOps
  /\ \E i \in DOMAIN jobQueueRef : Retryable(jobQueueRef[i])
  /\ InstallStore(processQueue(
       [Store EXCEPT !.queue = [i \in DOMAIN jobQueueRef |->
          IF Retryable(jobQueueRef[i]) THEN [jobQueueRef[i] EXCEPT !.status = "pending"]
                                       ELSE jobQueueRef[i]]]))
  /\ userOps' = userOps + 1
  /\ UNCHANGED <<analysisStatus, isPausedRef, shouldStopRef, producers, runs, frames,
                 provider>>
  /\ AnalyzerFrame

\* The timer (617, 624, 635, 666) or the seeked event (630-633) of run r fires.
ProducerResumes(r) ==
  /\ Alive(producers[r])
  /\ \E N \in {Resumed(Ctx, r, producers[r])} : Install(N, r)
  /\ UNCHANGED <<isPausedRef, shouldStopRef, runs, frames, provider, userOps>>
  /\ AnalyzerFrame

\* The callAI promise of job id settles: then or catch, finally (538-561).
RequestSettles(id) ==
  /\ id \in inFlight
  /\ \E ok \in Outcomes(provider) : InstallStore(Settled(Store, id, ok))
  /\ UNCHANGED <<analysisStatus, isPausedRef, shouldStopRef, producers, runs, frames,
                 provider, userOps>>
  /\ AnalyzerFrame

NextAnalyzer ==
  \/ startAnalysisLoop
  \/ stopAnalysis
  \/ Pause
  \/ Resume
  \/ \E i \in DOMAIN jobQueueRef : retryJob(i)
  \/ retryAllFailed
  \/ \E r \in Runs : ProducerResumes(r)
  \/ \E id \in inFlight : RequestSettles(id)

SpecAnalyzer == InitAnalyzer /\ [][NextAnalyzer]_vars

\* A longer video against a provider that rejects every request: enough frame
\* times to fill the three request slots and the pending limit, and one more.
BacklogFrames == MAX_CONCURRENT_REQUESTS + MAX_PENDING_QUEUE_SIZE + 1

InitBacklog ==
  /\ analysisStatus = "idle" /\ isPausedRef = FALSE /\ shouldStopRef = FALSE
  /\ jobQueueRef = <<>> /\ activeRequestsRef = 0 /\ inFlight = {}
  /\ producers = [r \in Runs |-> NoProducer] /\ runs = 0 /\ userOps = 0
  /\ frames = BacklogFrames
  /\ provider = "failing"
  /\ OtherToolsIdle

\* The first click on Start of a session.
FirstStart == runs = 0 /\ startAnalysisLoop

\* One run: frame capture, request completion and the retry buttons.
NextBacklog ==
  \/ FirstStart
  \/ \E i \in DOMAIN jobQueueRef : retryJob(i)
  \/ retryAllFailed
  \/ \E r \in Runs : ProducerResumes(r)
  \/ \E id \in inFlight : RequestSettles(id)

SpecBacklog == InitBacklog /\ [][NextBacklog]_vars

\* One run that is never stopped: a short video against a provider that may
\* resolve or reject, with pause and retry clicks, or the longer video against
\* a provider that rejects, left alone (its clicks are counted as spent).
InitUnstopped ==
  /\ analysisStatus = "idle" /\ isPausedRef = FALSE /\ shouldStopRef = FALSE
  /\ jobQueueRef = <<>> /\ activeRequestsRef = 0 /\ inFlight = {}
  /\ producers = [r \in Runs |-> NoProducer] /\ runs = 0
  /\ \E video \in ((1..MaxFrames) \X {"flaky"} \X {0})
                    \cup ({BacklogFrames} \X {"failing"} \X {MaxUserOps}) :
        frames = video[1] /\ provider = video[2] /\ userOps = video[3]
  /\ OtherToolsIdle

NextUnstopped ==
  \/ FirstStart
  \/ Pause
  \/ Resume
  \/ \E i \in DOMAIN jobQueueRef : retryJob(i)
  \/ retryAllFailed
  \/ \E r \in Runs : ProducerResumes(r)
  \/ \E id \in inFlight : RequestSettles(id)

\* The timers and the seeked event fire, some request in flight settles, and
\* a paused run is resumed.
FairAnalyzer ==
  /\ InitUnstopped /\ [][NextUnstopped]_vars
  /\ WF_vars(\E r \in Runs : ProducerResumes(r))
  /\ WF_vars(\E id \in inFlight : RequestSettles(id))
  /\ WF_vars(Resume)

----------------------------------------------------------------------------
(* Properties of simulateLaunch (specification Spec).                      *)

\* The quantities as the specification states them, from the inputs alone.
ClaimEnginesMass == RMul(Whole(params.engineCount), params.engine.mass)

ClaimFuelMass == RMul(tankTotalMassT, RSub(One, params.tankDryWetRatio))

ClaimTotalMass == RAdd(RAdd(ClaimEnginesMass, params.payloadMass), tankTotalMassT)

ClaimThrustForce ==
  RMul(RMul(Whole(params.engineCount), params.engine.thrust), RMul(Whole(1000), GRAVITY_EARTH))

ClaimTwr ==
  RDiv(ClaimThrustForce, RMul(RMul(ClaimTotalMass, Whole(1000)), planet.gravitySurface))

ClaimBurnTime ==
  IF params.engine.thrust = Zero THEN Zero
  ELSE RDiv(RMul(ClaimFuelMass, params.engine.isp),
            RMul(Whole(params.engineCount), params.engine.thrust))

GateThreshold == Norm(10001, 10000)

\* What the liftoff gate promises for a call: no integration step, and once
\* the call has returned, zero motion fields beside the computed figures.
GatedOutcome ==
  /\ ~stepped
  /\ pc = "done" =>
       /\ result.maxHeight = Zero
       /\ result.maxVelocity = Zero
       /\ result.totalMassStart = ClaimTotalMass
       /\ result.fuelMass = ClaimFuelMass
       /\ result.dryMass = RSub(ClaimTotalMass, ClaimFuelMass)
       /\ result.burnTime = ClaimBurnTime
       /\ result.twrStart = ClaimTwr
       /\ result.deltaV =
            FMul(Fx(RMul(params.engine.isp, GRAVITY_EARTH)),
                 MathLog(RDiv(ClaimTotalMass, RSub(ClaimTotalMass, ClaimFuelMass))))

\* C1 as stated: for every configuration whose start TWR is <= 1.0001, the
\* boundary included, no integration step is taken, maxHeight and maxVelocity
\* are 0 and the static figures are returned.
C1_GateIncludesBoundary == RLe(ClaimTwr, GateThreshold) => GatedOutcome

\* C1 as amended: for every configuration whose start TWR is strictly below
\* 1.0001, no integration step is taken, the result has maxHeight = 0 and
\* maxVelocity = 0, and totalMassStart, dryMass, fuelMass, burnTime, twrStart
\* and deltaV are computed and returned.
C1_LiftoffGate == RLt(ClaimTwr, GateThreshold) => GatedOutcome

\* A gated call that has returned with a non-zero delta-v (thrust too weak
\* for the stack, fuel on board).
C1_Witness ==
  /\ pc = "done"
  /\ RLt(ClaimTwr, GateThreshold)
  /\ RGt(ClaimTwr, Zero)
  /\ RGt(result.deltaV, Zero)

\* C2: every simulateLaunch call runs to completion, for any timeStep >= 0
\* and any maxTime >= 0: the call eventually returns a result.
C2_Terminates == <>(pc = "done")

\* C3: the maxHeight returned is the greatest altitude over all integrator
\* states of the run, floored at 0.
C3_MaxHeightIsPeak == pc = "done" /\ stepped => result.maxHeight = RMax(Zero, peakAlt)

\* C8: with a payloadOverride argument supplied, the dry mass is engines mass
\* + payloadOverride + tank dry mass and the total mass follows from it.
C8_OverrideUsed ==
  pc = "done" /\ payloadOverride # "none" =>
    /\ result.dryMass =
         RAdd(RAdd(ClaimEnginesMass, payloadOverride),
              RMul(tankTotalMassT, params.tankDryWetRatio))
    /\ result.totalMassStart =
         RAdd(RAdd(ClaimEnginesMass, payloadOverride), tankTotalMassT)

----------------------------------------------------------------------------
(* Properties of computedStages (specification SpecStages).                *)

\* Mass-flow rate of a stage as the rule states it: thrust / Isp.
RuleRate(s) == RDiv(s.engineThrust, s.engineIsp)

\* min(A.remainingFuel / mDotA, B.remainingFuel / mDotB) for the stage at idx
\* and the one after it.
RuleBurnTime ==
  RMin(RDiv(simStages[idx].remainingFuel, RuleRate(simStages[idx])),
       RDiv(simStages[idx + 1].remainingFuel, RuleRate(simStages[idx + 1])))

\* The iteration about to run processes an enabled stage.
AtEnabledStage == mpc = "loop" /\ idx <= Len(simStages) /\ simStages[idx].isEnabled

\* The row the iteration pushes.
PushedRow == computed'[Len(computed')]

\* Fuel a stage B at idx holds when its own phase starts, after the parallel
\* phase of the stage below it: B.fuel - mDotB x burnTime of that phase.
RuleFuelLeft ==
  RSub(stages[idx].fuelMass, RMul(RuleRate(stages[idx]), computed[Len(computed)].burnTime))

\* C4: for an enabled stage A flagged parallel with next stage B the phase
\* burnTime is min(A.remainingFuel/mDotA, B.remainingFuel/mDotB); afterwards A
\* and B each have their remaining fuel reduced by their own mDot x burnTime;
\* and B enters its own later phase with B.fuel - mDotB x burnTime.
C4_ParallelRule ==
  [][ AtEnabledStage =>
        /\ (simStages[idx].stageType = "parallel" /\ idx + 1 <= Len(simStages)) =>
             /\ PushedRow.burnTime = RuleBurnTime
             /\ simStages'[idx].remainingFuel =
                  RSub(simStages[idx].remainingFuel,
                       RMul(RuleRate(simStages[idx]), RuleBurnTime))
             /\ simStages'[idx + 1].remainingFuel =
                  RSub(simStages[idx + 1].remainingFuel,
                       RMul(RuleRate(simStages[idx + 1]), RuleBurnTime))
        /\ (idx > 1 /\ simStages[idx - 1].isEnabled
                    /\ simStages[idx - 1].stageType = "parallel") =>
             /\ simStages[idx].remainingFuel = RuleFuelLeft
             /\ PushedRow.totalMassStart =
                  RAdd(RAdd(stages[idx].dryMass, RuleFuelLeft), PushedRow.massAbove)
    ]_vars

\* A booster that empties first (after 20 s) beside a core good for 30 s: the
\* core's own row follows, entered with fuel strictly between 0 and its load.
C4_Witness ==
  /\ mpc = "done"
  /\ Len(computed) >= 2
  /\ computed[1].id = 1 /\ computed[1].isBurningWithNext
  /\ computed[2].id = 2
  /\ RLt(RDiv(stages[1].fuelMass, RuleRate(stages[1])),
         RDiv(stages[2].fuelMass, RuleRate(stages[2])))
  /\ computed[1].burnTime = RDiv(stages[1].fuelMass, RuleRate(stages[1]))
  /\ RGt(RSub(RSub(computed[2].totalMassStart, computed[2].massAbove), stages[2].dryMass),
         Zero)
  /\ RLt(RSub(RSub(computed[2].totalMassStart, computed[2].massAbove), stages[2].dryMass),
         stages[2].fuelMass)

\* The list ss without its k-th stage.
RemoveAt(ss, k) == [j \in 1..(Len(ss) - 1) |-> IF j < k THEN ss[j] ELSE ss[j + 1]]

\* The figures of a phase list: masses, thrust, burn times, delta-v.
PhaseFigures(rows) ==
  [j \in 1..Len(rows) |->
     [id |-> rows[j].id, totalMassStart |-> rows[j].totalMassStart,
      totalMassEnd |-> rows[j].totalMassEnd, massAbove |-> rows[j].massAbove,
      phaseThrust |-> rows[j].phaseThrust, burnTime |-> rows[j].burnTime,
      deltaV |-> rows[j].deltaV]]

\* C5: a stage with isEnabled = false contributes nothing to any phase: the
\* phase list returned equals the one returned for the input with that stage
\* removed, wherever the disabled stage stands and whatever its neighbours'
\* staging modes.
C5_DisabledIsAbsent ==
  mpc = "done" =>
    \A k \in 1..Len(stages) :
      ~stages[k].isEnabled =>
        PhaseFigures(computed) = PhaseFigures(computeStages(RemoveAt(stages, k), payloadMass))

\* C6: for a stage with thrust 0 (and Isp > 0) computedStages reports burn
\* time 0 for its own (serial) phase, and burnTime, deltaV, TWR and phase Isp
\* are finite numbers, never Infinity or NaN.
C6_ZeroThrustFinite ==
  mpc = "done" =>
    \A j \in 1..Len(computed) :
      computed[j].engineThrust = Zero =>
        /\ ~computed[j].isBurningWithNext => computed[j].burnTime = Zero
        /\ IsFinite(computed[j].burnTime)
        /\ IsFinite(computed[j].deltaV)
        /\ IsFinite(computed[j].twrStart)
        /\ IsFinite(computed[j].twrEnd)
        /\ IsFinite(computed[j].phaseIsp)

----------------------------------------------------------------------------
(* Properties of runOptimization (specification SpecSweep).                *)

\* floor of a finite value.
FloorOf(x) == x[1] \div x[2]

\* Number of points of a sweep from lo to hi in increments of st.
RulePoints(lo, hi, st) == FloorOf(RDiv(RSub(hi, lo), st)) + 1

\* The i-th (1-based) value of a sweep from lo in increments of st.
RuleValue(lo, st, i) == RAdd(lo, RMul(Whole(i - 1), st))

\* C7: in mode 'fuel' the sweep runs over tank mass with the payload fixed at
\* params.payloadMass; in mode 'payload' it runs over payload mass from
\* minPayloadMass to maxPayloadMass with the tank fixed at params.totalTankMass.
C7_ModeHonoured ==
  spc = "done" =>
    IF optMode = "fuel"
    THEN \A i \in 1..Len(simCalls) :
           /\ simCalls[i].payload = params.payloadMass
           /\ simCalls[i].tank =
                RuleValue(params.minTotalTankMass, params.stepTotalTankMass, i)
    ELSE /\ Len(simCalls) =
              RulePoints(params.minPayloadMass, params.maxPayloadMass, params.stepPayloadMass)
         /\ \A i \in 1..Len(simCalls) :
              /\ simCalls[i].tank = params.totalTankMass
              /\ simCalls[i].payload =
                   RuleValue(params.minPayloadMass, params.stepPayloadMass, i)

\* The inputs the validation is to turn away: step <= 0 or min > max.
RuleRejects ==
  \/ RLe(params.stepTotalTankMass, Zero)
  \/ RGt(params.minTotalTankMass, params.maxTotalTankMass)

\* C9: when the swept step is <= 0 or the swept minimum is greater than the
\* swept maximum, runOptimization never enters its loop, never invokes
\* simulateLaunch, and returns the empty list.
C9_RejectedIsEmpty ==
  RuleRejects =>
    /\ spc # "loop"
    /\ simCalls = <<>>
    /\ spc = "done" => results = <<>>

\* A call with step 0 and min <= max that has returned.
C9_Witness ==
  /\ spc = "done"
  /\ results = <<>>
  /\ REq(params.stepTotalTankMass, Zero)
  /\ RLe(params.minTotalTankMass, params.maxTotalTankMass)

DeltaVSum[k \in Nat] ==
  IF k = 0 THEN Zero ELSE RAdd(DeltaVSum[k - 1], computed[k].deltaV)

\* C11: in the list returned, the cumulativeDeltaV of the k-th reported phase
\* equals the sum of the deltaV of the phases up to it (so the last one holds
\* the sum of all), and the cumulativeDeltaV values are non-decreasing.
C11_CumulativeDeltaV ==
  mpc = "done" =>
    \A k \in 1..Len(computed) :
      /\ REq(computed[k].cumulativeDeltaV, DeltaVSum[k])
      /\ k > 1 => RLe(computed[k - 1].cumulativeDeltaV, computed[k].cumulativeDeltaV)

\* The stage list with the staging mode of its last (topmost) stage switched.
TopFlagSwitched(ss) ==
  [ss EXCEPT ![Len(ss)].stageType =
     IF ss[Len(ss)].stageType = "parallel" THEN "serial" ELSE "parallel"]

\* The reported phases without the staging-mode flag of the input.
RowFigures(rows) ==
  [j \in 1..Len(rows) |->
     [id |-> rows[j].id, dryMass |-> rows[j].dryMass, fuelMass |-> rows[j].fuelMass,
      remainingFuel |-> rows[j].remainingFuel,
      totalMassStart |-> rows[j].totalMassStart, totalMassEnd |-> rows[j].totalMassEnd,
      massAbove |-> rows[j].massAbove, deltaV |-> rows[j].deltaV,
      burnTime |-> rows[j].burnTime, twrStart |-> rows[j].twrStart,
      twrEnd |-> rows[j].twrEnd, cumulativeDeltaV |-> rows[j].cumulativeDeltaV,
      isBurningWithNext |-> rows[j].isBurningWithNext,
      phaseThrust |-> rows[j].phaseThrust, phaseIsp |-> rows[j].phaseIsp]]

\* C12: a parallel flag on the topmost stage is treated as serial: the result
\* is the same whether the stage with no stage above it is flagged 'parallel'
\* or 'serial', and its phase is reported with isBurningWithNext = false.
C12_TopFlagIgnored ==
  mpc = "done" =>
    /\ RowFigures(computed) = RowFigures(computeStages(TopFlagSwitched(stages), payloadMass))
    /\ stages[Len(stages)].isEnabled =>
         /\ computed[Len(computed)].id = Len(stages)
         /\ ~computed[Len(computed)].isBurningWithNext

\* Two enabled stages, the upper one flagged parallel, both reported.
C12_Witness ==
  /\ mpc = "done"
  /\ Len(stages) >= 2
  /\ stages[Len(stages)].isEnabled
  /\ stages[Len(stages)].stageType = "parallel"
  /\ Len(computed) >= 2
  /\ computed[Len(computed)].id = Len(stages)
  /\ RGt(computed[Len(computed)].deltaV, Zero)

\* TWR as the specification defines it: thrust force (tonnes-force converted
\* to newtons) over weight (mass in kilograms x the planet's surface gravity).
RuleTwr(thrustT, massT) ==
  RDiv(RMul(RMul(thrustT, Whole(1000)), GRAVITY_EARTH),
       RMul(RMul(massT, Whole(1000)), planet.gravitySurface))

\* C13: the TWR values reported by computedStages use the surface gravity of
\* the planet: twrStart = phase thrust force / (totalMassStart x planet
\* gravity) and twrEnd = phase thrust force / (totalMassEnd x planet gravity).
C13_TwrUsesPlanetGravity ==
  mpc = "done" =>
    \A j \in 1..Len(computed) :
      /\ computed[j].twrStart = RuleTwr(computed[j].phaseThrust, computed[j].totalMassStart)
      /\ computed[j].twrEnd = RuleTwr(computed[j].phaseThrust, computed[j].totalMassEnd)

----------------------------------------------------------------------------
(* Further properties of simulateLaunch (specification Spec).              *)

\* A second environment for the same rocket: the airless low-gravity body,
\* the other gravity and drag models, telemetry on.
OtherPlanet == CHOOSE pl \in Planets : pl.atmosphereHeight = Zero

OtherSettings ==
  [gravityModel |-> IF settings.gravityModel = "constant" THEN "variable" ELSE "constant",
   enableDrag |-> ~settings.enableDrag, timeStep |-> Norm(1, 2), maxTime |-> Whole(2)]

\* The static figures of a SimulationResult.
StaticFigures(r) ==
  [deltaV |-> r.deltaV, fuelMass |-> r.fuelMass, dryMass |-> r.dryMass,
   totalMassStart |-> r.totalMassStart, burnTime |-> r.burnTime]

\* C14: deltaV, fuelMass, dryMass, totalMassStart and burnTime depend only on
\* the tank mass and the rocket params: the call with the same rocket under
\* another planet, other settings and another logInterval returns the same
\* values, whether or not the liftoff gate fires in either call.
C14_StaticFiguresOfRocketOnly ==
  pc = "done" =>
    StaticFigures(result) =
      StaticFigures(simulateLaunch(tankTotalMassT, params, OtherPlanet, OtherSettings, One))

\* A call stopped by the liftoff gate whose rocket flies in the other
\* environment, with fuel on board.
C14_Witness ==
  /\ pc = "done"
  /\ ~stepped
  /\ RGt(result.deltaV, Zero)
  /\ RGt(simulateLaunch(tankTotalMassT, params, OtherPlanet, OtherSettings, One).maxVelocity,
         Zero)

\* The example of the mass breakdown: tank 30 t, ratio 0.1, one 12 t engine,
\* payload 10 t.
ExampleRocket ==
  /\ tankTotalMassT = Whole(30)
  /\ params.tankDryWetRatio = Norm(1, 10)
  /\ params.engineCount = 1
  /\ params.engine.mass = Whole(12)
  /\ params.payloadMass = Whole(10)

\* fuelMass = tank x (1 - ratio), dryMass = engineCount x engine.mass + payload
\* + tank x ratio, totalMassStart = dryMass + fuelMass = engines + payload + tank.
MassBreakdown ==
  /\ result.fuelMass = RMul(tankTotalMassT, RSub(One, params.tankDryWetRatio))
  /\ result.dryMass =
       RAdd(RAdd(RMul(Whole(params.engineCount), params.engine.mass), params.payloadMass),
            RMul(tankTotalMassT, params.tankDryWetRatio))
  /\ result.totalMassStart = RAdd(result.dryMass, result.fuelMass)
  /\ result.totalMassStart =
       RAdd(RAdd(RMul(Whole(params.engineCount), params.engine.mass), params.payloadMass),
            tankTotalMassT)

\* C15 as stated: the mass breakdown holds for every input, and the example
\* rocket has fuel 27, dry 23.2, total 52.2.
C15_BreakdownAsStated ==
  pc = "done" =>
    /\ MassBreakdown
    /\ ExampleRocket =>
         /\ result.fuelMass = Whole(27)
         /\ result.dryMass = Norm(232, 10)
         /\ result.totalMassStart = Norm(522, 10)

\* C15 as amended: the mass breakdown holds for every input, and the example
\* rocket has fuel 27, dry 25, total 52.
C15_Breakdown ==
  pc = "done" =>
    /\ MassBreakdown
    /\ ExampleRocket =>
         /\ result.fuelMass = Whole(27)
         /\ result.dryMass = Whole(25)
         /\ result.totalMassStart = Whole(52)

\* The example rocket, returned.
C15_Witness == pc = "done" /\ ExampleRocket /\ result.fuelMass = Whole(27)


----------------------------------------------------------------------------
(* Properties of interleaved invocations (specification SpecCalls).        *)

SameInputs(c, d) ==
  launches[c].tank = launches[d].tank /\ launches[c].logInterval = launches[d].logInterval

\* C16: no state is shared between invocations.  Whatever the other
\* invocations have done so far, an invocation of simulateLaunch returns the
\* value of simulateLaunch at its own arguments and an evaluation of
\* computedStages the value of computeStages at (stages, payloadMass); hence
\* two invocations with equal inputs return equal results.
C16_NoSharedState ==
  /\ \A c \in DOMAIN launches :
       launches[c].pc = "done" =>
         launches[c].result = simulateLaunch(launches[c].tank, params, planet, settings,
                                             launches[c].logInterval)
  /\ \A c \in DOMAIN launches : \A d \in DOMAIN launches :
       (launches[c].pc = "done" /\ launches[d].pc = "done" /\ SameInputs(c, d))
         => launches[c].result = launches[d].result
  /\ \A c \in DOMAIN evals :
       evals[c].mpc = "done" => evals[c].C.computed = computeStages(stages, payloadMass)
  /\ \A c \in DOMAIN evals : \A d \in DOMAIN evals :
       (evals[c].mpc = "done" /\ evals[d].mpc = "done")
         => evals[c].C.computed = evals[d].C.computed

\* The second invocation has flown and returned while the first one, called
\* with the same inputs, is in the middle of its loop; the first evaluation
\* has returned two rows while the second is between its two stages.
C16_Witness ==
  /\ DOMAIN launches = Invocations
  /\ SameInputs(1, 2)
  /\ launches[2].pc = "done" /\ RGt(launches[2].result.maxVelocity, Zero)
  /\ launches[1].pc = "loop" /\ launches[1].L.state[1] = One
  /\ evals[1].mpc = "done" /\ Len(evals[1].C.computed) = 2
  /\ evals[2].mpc = "loop" /\ evals[2].idx = 2


----------------------------------------------------------------------------
(* Further properties of computedStages (specification SpecStages).        *)

\* C17: computeStages leaves its input unchanged.  No step of a computation
\* changes the stage list it was given (every stage keeps its fuelMass,
\* dryMass, thrust, Isp, enabled flag and staging mode) nor the payload, and
\* the list returned is the one a computation on the input as it is after
\* the run returns again.
C17_InputUnchanged ==
  [][/\ stages' = stages
     /\ payloadMass' = payloadMass
     /\ mpc' = "done" => computed' = computeStages(stages', payloadMass')]_vars

\* A computation has returned after a parallel phase: a clone has been
\* burnt empty while the input stage it was cloned from still holds its fuel.
C17_Witness ==
  /\ mpc = "done"
  /\ \E k \in 1..Len(computed) : computed[k].isBurningWithNext
  /\ \E k \in 1..Len(stages) :
       /\ stages[k].isEnabled
       /\ RGt(stages[k].fuelMass, Zero)
       /\ simStages[k].remainingFuel = Zero


----------------------------------------------------------------------------
(* Degenerate and stopping behaviour of simulateLaunch (specification Spec). *)

\* C18: a zero-fuel configuration gives zero motion fields.  A call with tank
\* mass 0 and a positive dry mass that returns, returns maxHeight = 0,
\* maxVelocity = 0, burnTime = 0 and deltaV = 0, whether the gate returned
\* early or the integration loop ran.
C18_ZeroFuelZeroMotion ==
  (pc = "done" /\ REq(tankTotalMassT, Zero) /\ RGt(result.dryMass, Zero)) =>
     /\ REq(result.maxHeight, Zero)
     /\ REq(result.maxVelocity, Zero)
     /\ REq(result.burnTime, Zero)
     /\ REq(result.deltaV, Zero)

\* A rocket without fuel whose start TWR passes the gate has gone through the
\* loop, taken an RK4 step (it has sunk below the surface) and returned.
C18_Witness ==
  /\ pc = "done"
  /\ REq(tankTotalMassT, Zero)
  /\ RGt(result.dryMass, Zero)
  /\ RGt(result.twrStart, Norm(10001, 10000))
  /\ stepped
  /\ RLt(state[2], planet.radius)


----------------------------------------------------------------------------
(* The time step of the two sweeps (specification SpecMatrix).             *)

\* C19: both sweeps run every grid point with the same coarsened time step
\* max(settings.timeStep, 0.1).  Every simulateLaunch call of the matrix sweep
\* and of runOptimization gets a settings copy with the time step
\* runOptimization derives from the caller's settings, telemetry off, and the
\* caller's settings keep their time step.
C19_SameCoarsening ==
  /\ \A k \in 1..Len(matrixCalls) :
       /\ REq(matrixCalls[k].timeStep, RMax(settings.timeStep, Norm(1, 10)))
       /\ REq(matrixCalls[k].timeStep, SweepSettings(settings).timeStep)
  /\ \A k \in 1..Len(simCalls) :
       REq(simCalls[k].timeStep, RMax(settings.timeStep, Norm(1, 10)))
  /\ xpc # "call" =>
       matrixSettings = [settings EXCEPT !.timeStep = matrixSettings.timeStep]


StopAtMaxTime == RGe(state[1], settings.maxTime)

StopAtCrash == RGt(state[1], One) /\ RLe(state[2], planet.radius)

StopAtApoapsis == RLt(state[3], Zero)

\* A step of the loop: the call is in the loop before and after it.
StepTaken == pc = "loop" /\ pc' = "loop"

LoopReturns == pc = "loop" /\ pc' = "done"

\* What the velocity bound gives: every velocity that entered maxVelocity or
\* the telemetry is >= 0.
VelocitiesNonNegative(res, tel) ==
  /\ RGe(res.maxVelocity, Zero)
  /\ \A k \in 1..Len(tel) : RGe(tel[k].velocity, Zero)

----------------------------------------------------------------------------
(* The integrator state and the force model (specification Spec).          *)

\* C21: in every integrator state the mass lies between the dry mass and the
\* initial total mass, and a step of the loop never increases it.
C21_MassBounds ==
  [][/\ pc' = "loop" =>
          /\ RLe(Fx(Figures.dryMassKg), state'[4])
          /\ RLe(state'[4], Fx(Figures.totalMassKg))
     /\ StepTaken => RLe(state'[4], state[4])]_vars

\* A rocket with fuel has burnt down to its dry mass inside the loop.
C21_Witness ==
  /\ pc = "loop"
  /\ stepped
  /\ RGt(Figures.fuelMassKg, Zero)
  /\ REq(state[4], Fx(Figures.dryMassKg))
  /\ RLt(state[4], Fx(Figures.totalMassKg))


----------------------------------------------------------------------------
(* Properties of getDerivatives (specification SpecDerive).                *)

DerivedInAtmosphere ==
  settings.enableDrag /\ RLt(FSub(state[2], planet.radius), planet.atmosphereHeight)

C23_DragOpposesMotion ==
  pc = "derived" =>
    IF DerivedInAtmosphere
    THEN /\ RGt(state[3], Zero) => RLt(result.terms.accelDrag, Zero)
         /\ RLt(state[3], Zero) => RGt(result.terms.accelDrag, Zero)
         /\ REq(state[3], Zero) => REq(result.terms.accelDrag, Zero)
    ELSE REq(result.terms.accelDrag, Zero)


----------------------------------------------------------------------------
(* Masses and fuel in computedStages (specification SpecStages).           *)

\* Sum of wet(k) over the enabled stages k of ss with k >= j, from the top down.

RemainingWet(s) == RAdd(s.dryMass, s.remainingFuel)

ConfiguredWet(s) == RAdd(s.dryMass, s.fuelMass)

RECURSIVE SumAbove(_, _, _)
SumAbove(ss, j, remaining) ==
  IF j > Len(ss) THEN Zero
  ELSE RAdd(IF ~ss[j].isEnabled THEN Zero
            ELSE IF remaining THEN RemainingWet(ss[j]) ELSE ConfiguredWet(ss[j]),
            SumAbove(ss, j + 1, remaining))

RowPushed == mpc = "loop" /\ Len(computed') = Len(computed) + 1

AllSerial == \A k \in 1..Len(stages) : stages[k].stageType = "serial"

\* C24: for every phase reported, massAbove is the payload plus dry mass and
\* fuel remaining at that moment of every enabled stage above the current
\* one, and totalMassStart is the current stage's dry mass + its remaining
\* fuel + massAbove; in an all-serial list the top stage has massAbove =
\* payload and stage 0 has totalMassStart = payload + the wet mass of every
\* enabled stage.
C24_MassAbove ==
  [][/\ RowPushed =>
          /\ computed'[Len(computed')].massAbove =
               RAdd(payloadMass, SumAbove(simStages, idx + 1, TRUE))
          /\ computed'[Len(computed')].totalMassStart =
               RAdd(RemainingWet(simStages[idx]), computed'[Len(computed')].massAbove)
     /\ (mpc' = "done" /\ AllSerial) =>
          /\ stages[Len(stages)].isEnabled =>
               computed'[Len(computed')].massAbove = payloadMass
          /\ stages[1].isEnabled =>
               computed'[1].totalMassStart =
                 RAdd(payloadMass, SumAbove(stages, 1, FALSE))]_vars

\* A computation has reported a phase of a stage that started it with less
\* fuel than configured (it had burnt alongside the stage below), under a
\* stage list with a disabled stage.
C24_Witness ==
  /\ mpc = "done"
  /\ \E k \in 1..Len(stages) : ~stages[k].isEnabled
  /\ \E k \in 1..Len(computed) :
       /\ IsFinite(computed[k].totalMassStart)
       /\ RLt(computed[k].totalMassStart,
              RAdd(ConfiguredWet(computed[k]), computed[k].massAbove))


----------------------------------------------------------------------------
(* Telemetry of simulateLaunch (specification SpecBurn).                   *)

MaxVisited == 2 * MaxSimTime + 2

\* The integrator visits the times 0, dt, 2 dt, ...: the time of the first
\* state at or after time x that comes after the state of time `after`
\* (after = -1: no state excluded).
FirstStateTime(x, after) ==
  LET dt == settings.timeStep
      Fits(j) == RGe(RMul(Whole(j), dt), x) /\ RGt(RMul(Whole(j), dt), after)
      j0 == CHOOSE j \in 0..MaxVisited : Fits(j) /\ \A i \in 0..(j - 1) : ~Fits(i)
  IN  RMul(Whole(j0), dt)

Due(k) == RMul(Whole(k), logInterval)

TelemetryAppendOnly ==
  /\ Len(telemetry') <= Len(telemetry) + 1
  /\ SubSeq(telemetry', 1, Len(telemetry)) = telemetry
  /\ Len(telemetry') = Len(telemetry) + 1 =>
       /\ telemetry'[Len(telemetry')].time = ToFixed2(state[1])
       /\ telemetry'[Len(telemetry')].height = Altitude(state)
       /\ telemetry'[Len(telemetry')].velocity = state[3]

\* The result carries the telemetry of the run when logging was requested
\* and the gate let the integrator run, and no telemetry otherwise.
TelemetryProduced ==
  pc = "done" =>
    IF RGt(logInterval, Zero) /\ ~GateCloses(result.twrStart)
    THEN result.telemetry = telemetry
    ELSE result.telemetry = "undefined" /\ telemetry = <<>>

TelemetryOrdered ==
  /\ Len(telemetry) > 0 =>
       /\ REq(telemetry[1].time, Zero)
       /\ REq(telemetry[1].height, Zero)
       /\ REq(telemetry[1].velocity, Zero)
  /\ \A k \in 2..Len(telemetry) : RLe(telemetry[k - 1].time, telemetry[k].time)

\* C25 as stated: telemetry is produced exactly when logInterval > 0 and the
\* integrator runs; it is append-only, at most one point per step, each point
\* the snapshot of the state of the step; point 0 is the launch state; times
\* never decrease; and the k-th point (0-based) is taken at the first
\* integrator state whose time is >= k x logInterval.
C25_SampleAtFirstDue ==
  /\ [][TelemetryAppendOnly]_vars
  /\ [](/\ TelemetryProduced
        /\ TelemetryOrdered
        /\ \A k \in 1..Len(telemetry) :
             telemetry[k].time = ToFixed2(FirstStateTime(Due(k - 1), Whole(-1))))

\* C25, amended: as above, the k-th point being taken at the first integrator
\* state after the state of point k - 1 whose time is >= k x logInterval.
C25_Telemetry ==
  /\ [][TelemetryAppendOnly]_vars
  /\ [](/\ TelemetryProduced
        /\ TelemetryOrdered
        /\ \A k \in 1..Len(telemetry) :
             telemetry[k].time =
               ToFixed2(FirstStateTime(Due(k - 1),
                                       IF k = 1 THEN Whole(-1) ELSE telemetry[k - 1].time)))

\* A flight logged at an interval that is no multiple of the time step has
\* returned three points or more, some states having been skipped.
C25_Witness ==
  /\ pc = "done"
  /\ logInterval = Norm(3, 4)
  /\ settings.timeStep = Norm(1, 2)
  /\ Len(telemetry) >= 3
  /\ result.telemetry = telemetry
  /\ RGt(state[1], RMul(Whole(Len(telemetry)), settings.timeStep))


FuelInputsValid ==
  \A k \in 1..Len(stages) :
     /\ RGe(stages[k].fuelMass, Zero)
     /\ RGt(stages[k].engineThrust, Zero)
     /\ RGt(stages[k].engineIsp, Zero)

\* C26: with non-negative fuel and positive thrust and Isp, throughout a
\* computation the remaining fuel of every clone stays within [0, its
\* configured fuelMass] (a stage never consumes more than it was given) and
\* never increases, and after a stage's own serial phase its remaining fuel
\* is 0.
C26_FuelWithinTank ==
  [][(FuelInputsValid /\ mpc = "loop") =>
       /\ \A k \in 1..Len(simStages') :
            /\ RGe(simStages'[k].remainingFuel, Zero)
            /\ RLe(simStages'[k].remainingFuel, simStages'[k].fuelMass)
            /\ RLe(simStages'[k].remainingFuel, simStages[k].remainingFuel)
       /\ (RowPushed /\ ~computed'[Len(computed')].isBurningWithNext) =>
            REq(simStages'[idx].remainingFuel, Zero)]_vars

----------------------------------------------------------------------------
(* Claims about the batch analysis of VideoAnalyzer.                       *)

\* C27: across start, pause, resume, stop, retry and restart and every order
\* of completions, at most MAX_CONCURRENT_REQUESTS callAI requests are in
\* flight, and activeRequestsRef equals the number of requests in flight.
C27_CounterMatchesInFlight ==
  /\ Cardinality(inFlight) <= MAX_CONCURRENT_REQUESTS
  /\ activeRequestsRef = Cardinality(inFlight)

\* Run r captures a frame: its currentTime advances and its job joins the queue.
CapturesFrame(r) == producers'[r].currentTime # producers[r].currentTime

AppendsJob(r) ==
  \E i \in DOMAIN jobQueueRef' :
     /\ jobQueueRef'[i].id[1] = r
     /\ \A j \in DOMAIN jobQueueRef : jobQueueRef[j].id # jobQueueRef'[i].id

StartsRequest(r) == \E id \in inFlight' \ inFlight : id[1] = r

\* C28: once stopAnalysis has been invoked during a run, that run captures no
\* further frame, appends no further job and starts no further callAI request,
\* wherever its producer loop was parked when stop was requested.
C28_StopIsFinal ==
  [][\A r \in Runs : producers[r].stopped =>
        ~CapturesFrame(r) /\ ~AppendsJob(r) /\ ~StartsRequest(r)]_vars

\* C29: at every moment at most MAX_PENDING_QUEUE_SIZE jobs of the queue have
\* status 'pending', whatever the interleaving of frame capture, request
\* completion, retryJob and retryAllFailed.
C29_PendingBounded == PendingCount(jobQueueRef) <= MAX_PENDING_QUEUE_SIZE

JobStatus(id) ==
  IF \E i \in DOMAIN jobQueueRef : jobQueueRef[i].id = id
  THEN (CHOOSE job \in {jobQueueRef[i] : i \in DOMAIN jobQueueRef} : job.id = id).status
  ELSE "absent"

JobIds == {<<1, t>> : t \in 0..(BacklogFrames - 1)}

\* Every appended job gets settled.
JobsSettle ==
  \A id \in JobIds : (JobStatus(id) # "absent") ~> (JobStatus(id) \in {"done", "error"})

ProcessingIds(q) == {q[i].id : i \in {j \in DOMAIN q : q[j].status = "processing"}}

\* One request per attempt: a job changes status only along
\* pending -> processing -> done | error -> pending, its request starts in the
\* step that makes it 'processing' and ends in the step that settles it, and
\* the jobs being processed are the requests in flight.
OneRequestPerAttempt ==
  [][/\ ProcessingIds(jobQueueRef') = inFlight'
     /\ \A i \in DOMAIN jobQueueRef :
          LET old == jobQueueRef[i].status
              new == jobQueueRef'[i].status
              id  == jobQueueRef[i].id
          IN /\ i \in DOMAIN jobQueueRef' /\ jobQueueRef'[i].id = id
             /\ new # old =>
                  \/ old = "pending" /\ new = "processing" /\ id \in inFlight' \ inFlight
                  \/ old = "processing" /\ new \in {"done", "error"}
                       /\ id \in inFlight \ inFlight'
                  \/ old = "error" /\ new = "pending"
                  \/ old = "error" /\ new = "processing" /\ id \in inFlight' \ inFlight
             /\ new = old => (id \in inFlight' <=> id \in inFlight)]_vars

LastFrameCaptured ==
  \E r \in Runs : Alive(producers[r]) /\ producers[r].currentTime = frames

AnalysisOver ==
  analysisStatus = "idle" /\ inFlight = {} /\ activeRequestsRef = 0
    /\ PendingCount(jobQueueRef) = 0

\* C30: in a run that is not stopped and not left paused, with every request
\* settling, every appended job reaches 'done' or 'error' through one
\* pending -> processing step per attempt, and once the last frame is captured
\* the status returns to 'idle' with nothing in flight and nothing pending.
C30_Liveness ==
  /\ JobsSettle
  /\ OneRequestPerAttempt
  /\ LastFrameCaptured ~> AnalysisOver

C30_Witness ==
  /\ AnalysisOver /\ producers[1].pc = "done"
  /\ frames = BacklogFrames /\ Len(jobQueueRef) = frames
  /\ \A i \in DOMAIN jobQueueRef : jobQueueRef[i].status = "error"

====
